---------------------------- MODULE Spec2Model ----------------------------
(***************************************************************************)
(* Model of the Discord photo-challenge bot: the pager (split_message),    *)
(* the reaction aggregator (get_post_data), the ranking renderers          *)
(* (generate_markdown_output in core_logic.py and main.py,                 *)
(* generate_enhanced_ranking) and the analysis request handlers            *)
(* (handle_full_analysis, handle_short_analysis).                          *)
(*                                                                         *)
(* A text is a sequence of one-character strings.  Each part of the        *)
(* program has its own specification over the shared variables:            *)
(*   SpecPager  split_message on bounded texts                             *)
(*   SpecAgg    get_post_data on bounded posts and lookup outcomes         *)
(*   SpecRank   the three renderers on bounded lists of aggregates         *)
(*   Spec       one analysis request (handle_full_analysis or              *)
(*              handle_short_analysis) on a bounded thread                 *)
(***************************************************************************)
EXTENDS Integers, Sequences, FiniteSets, TLC

VARIABLES
    message,      \* split_message: the text to split
    max_length,   \* split_message: the chunk limit
    parts,        \* split_message: the returned list of chunks
    pager_pc,     \* "input" before the call, "done" after it
    post,         \* get_post_data: the message it is called on
    lookups,      \* get_post_data: how each reaction.users() call ended
    post_data,    \* get_post_data: the returned dict
    agg_pc,       \* "input", then "done" (returned)
    data,         \* renderers: the list of aggregates
    arg_num_top_posts,        \* renderers: the rank limit used
    arg_include_image_links,  \* renderers: the detail flag used
    renderer,     \* which renderer ran: "core", "enhanced", "main"
    markdown,     \* renderers: the returned report
    thread,       \* the thread on the platform: its messages, with the
                  \* reactors each reaction has now
    operation,    \* the operation of the request: "full" or "short"
    h_pc,         \* where the handler is (its await points)
    image_messages,           \* handler local
    processed_data,           \* handler local
    total_image_posts_count,  \* handler local
    total_thread_reactions,   \* handler local
    unique_reactors_ids,      \* handler local
    csv_file,     \* the rows of the CSV file written, <<>> when none
    csv_filepath, \* handler local: "path", or "None"
    outbox,       \* the direct messages the handler has still to send
    dm,           \* the direct messages the requester received, in order
    followups,    \* the followup responses of the interaction, in order
    changes,      \* reaction changes by other users during the request
    requests,     \* the full-analysis requests in flight together: for each
                  \* its position, thread name, aggregates and what its
                  \* requester received
    tmp_files     \* the files under /tmp: a set of [name, rows]

pager_vars == <<message, max_length, parts, pager_pc>>
agg_vars == <<post, lookups, post_data, agg_pc>>
rank_vars == <<data, arg_num_top_posts, arg_include_image_links, renderer, markdown>>

handler_vars == <<thread, operation, h_pc, image_messages, processed_data,
                  total_image_posts_count, total_thread_reactions,
                  unique_reactors_ids, csv_file, csv_filepath, outbox, dm,
                  followups, changes>>

conc_vars == <<requests, tmp_files>>

vars == <<message, max_length, parts, pager_pc, post, lookups, post_data, agg_pc,
          data, arg_num_top_posts, arg_include_image_links, renderer, markdown,
          thread, operation, h_pc, image_messages, processed_data,
          total_image_posts_count, total_thread_reactions,
          unique_reactors_ids, csv_file, csv_filepath, outbox, dm,
          followups, changes, requests, tmp_files>>

----------------------------------------------------------------------------
(* Bounds of the pager model *)

\* longest text given to split_message
MaxTextLen == 6
\* largest chunk limit given to split_message
MaxLimit == 4

----------------------------------------------------------------------------
(* Texts *)

NL == "\n"

\* the characters of the modelled texts: two visible ones, a blank, a newline
Chars == {"a", "b", " ", NL}

\* str.strip() with no argument removes whitespace from both ends
Whitespace == {" ", NL}

TextsUpTo(n) == UNION {[1..k -> Chars] : k \in 0..n}

RECURSIVE LStrip(_)
LStrip(s) ==
    IF s = <<>> THEN <<>>
    ELSE IF Head(s) \in Whitespace THEN LStrip(Tail(s)) ELSE s

RECURSIVE RStrip(_)
RStrip(s) ==
    IF s = <<>> THEN <<>>
    ELSE IF s[Len(s)] \in Whitespace THEN RStrip(SubSeq(s, 1, Len(s) - 1)) ELSE s

\* str.strip()
Strip(s) == RStrip(LStrip(s))

\* position of the first newline of s, 0 when there is none
RECURSIVE FirstNL(_, _)
FirstNL(s, i) ==
    IF i > Len(s) THEN 0
    ELSE IF s[i] = NL THEN i ELSE FirstNL(s, i + 1)

\* str.split('\n'): always at least one line, empty lines kept
RECURSIVE SplitLines(_)
SplitLines(s) ==
    LET i == FirstNL(s, 1) IN
    IF i = 0 THEN <<s>>
    ELSE <<SubSeq(s, 1, i - 1)>> \o SplitLines(SubSeq(s, i + 1, Len(s)))

\* '\n'.join(chunks)
RECURSIVE JoinNL(_)
JoinNL(chunks) ==
    IF chunks = <<>> THEN <<>>
    ELSE IF Len(chunks) = 1 THEN chunks[1]
    ELSE chunks[1] \o <<NL>> \o JoinNL(Tail(chunks))

Min(a, b) == IF a <= b THEN a ELSE b

\* sum of a sequence of numbers
RECURSIVE SumSeq(_)
SumSeq(s) == IF s = <<>> THEN 0 ELSE Head(s) + SumSeq(Tail(s))

----------------------------------------------------------------------------
(* split_message, src/commands.py:311-338 *)

\* the inner while loop: slices of max_length cut off a line that is too long;
\* returns the slices and what is left of the line
RECURSIVE HardSplit(_, _, _)
HardSplit(line, limit, acc) ==
    IF Len(line) > limit
    THEN HardSplit(SubSeq(line, limit + 1, Len(line)), limit,
                   Append(acc, SubSeq(line, 1, limit)))
    ELSE [slices |-> acc, rest |-> line]

\* a plausible bug: the line that forces a flush is dropped instead of
\* starting the next buffer
SplitStepDropLine(st, line, limit) ==
    IF Len(st.current_part) + Len(line) + 1 > limit
    THEN IF st.current_part # <<>>
         THEN [parts |-> Append(st.parts, Strip(st.current_part)),
               current_part |-> <<>>]
         ELSE LET h == HardSplit(line, limit, <<>>) IN
              [parts |-> st.parts \o h.slices,
               current_part |-> IF h.rest # <<>> THEN h.rest \o <<NL>> ELSE <<>>]
    ELSE [parts |-> st.parts, current_part |-> st.current_part \o line \o <<NL>>]

\* one iteration of "for line in lines" on the state (parts, current_part)
SplitStep(st, line, limit) ==
    IF Len(st.current_part) + Len(line) + 1 > limit
    THEN IF st.current_part # <<>>
         THEN [parts |-> Append(st.parts, Strip(st.current_part)),
               current_part |-> line \o <<NL>>]
         ELSE LET h == HardSplit(line, limit, <<>>) IN
              [parts |-> st.parts \o h.slices,
               current_part |-> IF h.rest # <<>> THEN h.rest \o <<NL>> ELSE <<>>]
    ELSE [parts |-> st.parts, current_part |-> st.current_part \o line \o <<NL>>]

RECURSIVE SplitLoop(_, _, _)
SplitLoop(st, lines, limit) ==
    IF lines = <<>> THEN st
    ELSE SplitLoop(SplitStep(st, Head(lines), limit), Tail(lines), limit)

split_message(msg, limit) ==
    IF Len(msg) <= limit THEN <<msg>>
    ELSE LET st == SplitLoop([parts |-> <<>>, current_part |-> <<>>],
                             SplitLines(msg), limit) IN
         IF Strip(st.current_part) # <<>>
         THEN Append(st.parts, Strip(st.current_part))
         ELSE st.parts

----------------------------------------------------------------------------
(* Posts and reactions *)

\* number of user ids
NumUsers == 3
\* most reactions (distinct emojis) on one post
MaxReactions == 2

Users == 1..NumUsers
Emojis == {"E1", "E2"}

\* sequences without repetition over S, of length at most n
DistinctSeqs(S, n) ==
    {s \in UNION {[1..k -> S] : k \in 0..n} :
        \A i, j \in 1..Len(s) : i # j => s[i] # s[j]}

Range(s) == {s[i] : i \in 1..Len(s)}

\* a Reaction of a message: its emoji and the users reaction.users() yields,
\* in the order it yields them
ReactionsOver(userLists) ==
    {r \in UNION {[1..k -> [emoji : Emojis, users : userLists]] :
                    k \in 0..Min(MaxReactions, Cardinality(Emojis))} :
        \A i, j \in 1..Len(r) : i # j => r[i].emoji # r[j].emoji}

\* an attachment of a message: its url and its content type (None when the
\* platform gave none).  A content type is its text up to and including the
\* first "/" followed by the rest, so that startswith('image/') is a test of
\* the first part.
ImagePng == <<"image/", "png">>
VideoMp4 == <<"video/", "mp4">>
None == <<>>
ContentTypes == {ImagePng, VideoMp4, None}

Url(id, k) == <<"url", id, k>>

\* attachment.content_type and attachment.content_type.startswith('image/')
IsImage(att) == att.content_type # None /\ att.content_type[1] = "image/"

\* a post with one image attachment
OneImage(id) == <<[url |-> Url(id, 1), content_type |-> ImagePng]>>

NoPost == [id |-> 0, author |-> 0, attachments |-> <<>>, reactions |-> <<>>]
NoData == [post_link |-> <<>>, image_links |-> <<>>, posted_at |-> <<>>,
           author |-> <<>>, reactions |-> 0, individual_reactions |-> <<>>]

\* how one reaction.users() iteration ends: it yields the first `yielded`
\* users and then either finishes (ok, all users yielded) or raises
Outcomes(users) ==
    {[ok |-> TRUE, yielded |-> Len(users)]}
    \cup {[ok |-> FALSE, yielded |-> k] : k \in 0..Len(users)}

OutcomeSeqs(reactions) ==
    {o \in [1..Len(reactions) -> [ok : BOOLEAN, yielded : 0..NumUsers]] :
        \A i \in 1..Len(reactions) : o[i] \in Outcomes(reactions[i].users)}

AllOk(reactions) ==
    [i \in 1..Len(reactions) |-> [ok |-> TRUE, yielded |-> Len(reactions[i].users)]]

----------------------------------------------------------------------------
(* get_post_data, src/core_logic.py:55-86 *)

\* position of key k in the insertion-ordered dict d, 0 when absent
RECURSIVE DictIndex(_, _, _)
DictIndex(d, k, i) ==
    IF i > Len(d) THEN 0
    ELSE IF d[i].emoji = k THEN i ELSE DictIndex(d, k, i + 1)

\* a plausible bug: the count of an emoji already seen is set to 1 again
DictIncrementOverwrites(d, k) ==
    LET i == DictIndex(d, k, 1) IN
    IF i = 0 THEN Append(d, [emoji |-> k, count |-> 1])
    ELSE [d EXCEPT ![i].count = 1]

\* individual_reaction_counts[k] = individual_reaction_counts.get(k, 0) + 1
DictIncrement(d, k) ==
    LET i == DictIndex(d, k, 1) IN
    IF i = 0 THEN Append(d, [emoji |-> k, count |-> 1])
    ELSE [d EXCEPT ![i].count = @ + 1]

\* a plausible bug: the author's own reactions are counted like any other
CountUserNoAuthorCheck(acc, user, author_id, emoji) ==
    [total_reactions |-> acc.total_reactions + 1,
     individual_reaction_counts |-> DictIncrement(acc.individual_reaction_counts, emoji)]

\* the body of "async for user in reaction.users()"
CountUser(acc, user, author_id, emoji) ==
    IF user # author_id
    THEN [total_reactions |-> acc.total_reactions + 1,
          individual_reaction_counts |-> DictIncrement(acc.individual_reaction_counts, emoji)]
    ELSE acc

\* the users yielded before the iteration ends, counted one by one
RECURSIVE CountYielded(_, _, _, _, _)
CountYielded(acc, users, n, author_id, emoji) ==
    IF n = 0 \/ users = <<>> THEN acc
    ELSE CountYielded(CountUser(acc, Head(users), author_id, emoji),
                      Tail(users), n - 1, author_id, emoji)

\* "for reaction in message.reactions": what was counted before a lookup
\* raised stays counted; the except clause only moves on to the next reaction
RECURSIVE CountReactions(_, _, _, _)
CountReactions(acc, reactions, outcomes, author_id) ==
    IF reactions = <<>> THEN acc
    ELSE CountReactions(
            CountYielded(acc, Head(reactions).users, Head(outcomes).yielded,
                         author_id, Head(reactions).emoji),
            Tail(reactions), Tail(outcomes), author_id)

\* a plausible bug: ties come out in reverse input order (as from sorting
\* ascending and reversing the result)
SortedPosTiesReversed(keys, i) ==
    1 + Cardinality({j \in 1..Len(keys) :
                        \/ keys[j] > keys[i]
                        \/ (keys[j] = keys[i] /\ j > i)})

\* sorted(seq, key=..., reverse=True) is stable: among equal keys the
\* original order is kept.  Position of element i in the result.
SortedPos(keys, i) ==
    1 + Cardinality({j \in 1..Len(keys) :
                        \/ keys[j] > keys[i]
                        \/ (keys[j] = keys[i] /\ j < i)})

\* the permutation sorted() applies: result[p] = seq[SortedOrder(keys)[p]]
SortedOrder(keys) ==
    [p \in 1..Len(keys) |-> CHOOSE i \in 1..Len(keys) : SortedPos(keys, i) = p]

SortedByCountDesc(d) ==
    LET ord == SortedOrder([i \in 1..Len(d) |-> d[i].count]) IN
    [p \in 1..Len(d) |-> d[ord[p]]]

\* f"https://discord.com/channels/{guild_id}/{message.channel.id}/{message.id}":
\* within one thread the link is determined by, and determines, the message id
PostLink(id) == <<"link", id>>

\* message.author.display_name: the name the platform shows for a user id
DisplayName(user_id) == <<"name", user_id>>

\* message.created_at.isoformat(): history order is the order of the ids
PostedAt(id) == <<"at", id>>

\* ", ".join(image_links), a text of url tokens and ", " separators
RECURSIVE JoinComma(_)
JoinComma(links) ==
    IF links = <<>> THEN <<>>
    ELSE IF Len(links) = 1 THEN <<links[1]>>
    ELSE <<links[1], ", ">> \o JoinComma(Tail(links))

\* [att.url for att in message.attachments if att.content_type and ...]
RECURSIVE ImageLinks(_)
ImageLinks(atts) ==
    IF atts = <<>> THEN <<>>
    ELSE (IF IsImage(Head(atts)) THEN <<Head(atts).url>> ELSE <<>>)
         \o ImageLinks(Tail(atts))

get_post_data(msg, outcomes) ==
    LET acc == CountReactions([total_reactions |-> 0,
                               individual_reaction_counts |-> <<>>],
                              msg.reactions, outcomes, msg.author) IN
    [post_link |-> PostLink(msg.id),
     image_links |-> JoinComma(ImageLinks(msg.attachments)),
     posted_at |-> PostedAt(msg.id),
     author |-> DisplayName(msg.author),
     reactions |-> acc.total_reactions,
     individual_reactions |-> SortedByCountDesc(acc.individual_reaction_counts)]

----------------------------------------------------------------------------
(* The renderers.  A rendered report is the sequence of its lines; a line   *)
(* is a record of its kind and of the values formatted into it.             *)

BlankLine == [kind |-> "blank"]

\* the lines of the text that ends with the given joined lines: with nothing
\* joined the text ends with the newline before, which split shows as one
\* more empty line
Joined(lines) == IF lines = <<>> THEN <<BlankLine>> ELSE lines

\* str.rstrip() of the joined group lines: the trailing spacing lines go
RECURSIVE RStripLines(_)
RStripLines(lines) ==
    IF lines = <<>> THEN <<>>
    ELSE IF lines[Len(lines)] = BlankLine
         THEN RStripLines(SubSeq(lines, 1, Len(lines) - 1))
         ELSE lines

\* image_links.split(', ')[0]: the text before the first separator
RECURSIVE FirstField(_)
FirstField(text) ==
    IF text = <<>> THEN <<>>
    ELSE IF Head(text) = ", " THEN <<>>
    ELSE <<Head(text)>> \o FirstField(Tail(text))

\* [r['emoji'] for r in post['individual_reactions']]
EmojisOf(p) ==
    [k \in 1..Len(p.individual_reactions) |-> p.individual_reactions[k].emoji]

\* sorted(data, key=lambda x: x["reactions"], reverse=True)
SortedByReactionsDesc(d) ==
    LET ord == SortedOrder([i \in 1..Len(d) |-> d[i].reactions]) IN
    [p \in 1..Len(d) |-> d[ord[p]]]

\* grouped_posts[reactions]: the posts of sorted_data with that count, in the
\* order of sorted_data
PostsWithCount(sorted_data, reactions) ==
    LET Has(p) == p.reactions = reactions IN SelectSeq(sorted_data, Has)

\* sorted(grouped_posts.keys(), reverse=True)
RECURSIVE SortedKeysDesc(_)
SortedKeysDesc(keys) ==
    IF keys = {} THEN <<>>
    ELSE LET m == CHOOSE k \in keys : \A x \in keys : x <= k IN
         <<m>> \o SortedKeysDesc(keys \ {m})

\* the keys of grouped_posts in core_logic.py and commands.py: only posts
\* with reactions > 0 are grouped
GroupKeys(sorted_data) ==
    {sorted_data[i].reactions : i \in {j \in 1..Len(sorted_data) :
                                          sorted_data[j].reactions > 0}}

\* the keys of grouped_posts in main.py: every post is grouped
MainGroupKeys(sorted_data) ==
    {sorted_data[i].reactions : i \in 1..Len(sorted_data)}

\* a plausible bug: the limit is compared with >=, cutting the last rank
RankLimitReachedOffByOne(current_rank, num_top) == current_rank >= num_top

\* "if current_rank > num_top_posts: break"
RankLimitReached(current_rank, num_top) == current_rank > num_top

\* a plausible bug: competition ranking, a tie consumes one rank per member
NextRankByMembers(current_rank, posts_in_group) ==
    current_rank + Len(posts_in_group)

\* "current_rank += 1"
NextRank(current_rank, posts_in_group) == current_rank + 1

\* a plausible bug: only the empty list is taken to have no votes
AllZeroOnlyWhenEmpty(d) == d = <<>>

\* all(d['reactions'] == 0 for d in data)
AllZero(d) == \A i \in 1..Len(d) : d[i].reactions = 0

\* len([d for d in data if d['reactions'] > 0])
NumPositive(d) == Cardinality({i \in 1..Len(d) : d[i].reactions > 0})

\* the summary block of core_logic.py and commands.py
SummaryLines(total_posts, total_votes, total_voters) ==
    <<[kind |-> "title"], BlankLine, [kind |-> "summary"],
      [kind |-> "photos", count |-> total_posts],
      [kind |-> "votes", count |-> total_votes],
      [kind |-> "voters", count |-> total_voters],
      BlankLine>>

RECURSIVE FlattenLines(_)
FlattenLines(ls) ==
    IF ls = <<>> THEN <<>> ELSE Head(ls) \o FlattenLines(Tail(ls))

\* the lines of one post inside its rank group, core_logic.py:164-181
CorePostLines(p, include_image_links) ==
    <<[kind |-> "post", author |-> p.author, post_link |-> p.post_link]>>
    \o (IF include_image_links /\ FirstField(p.image_links) # <<>>
        THEN <<[kind |-> "image", link |-> FirstField(p.image_links)]>>
        ELSE <<>>)
    \o (IF include_image_links
        THEN <<[kind |-> "post_votes", count |-> p.reactions, emojis |-> EmojisOf(p)]>>
        ELSE <<>>)

\* the lines of one rank group, core_logic.py:152-184
CoreGroupLines(current_rank, reactions, posts_in_group, include_image_links) ==
    <<IF include_image_links
      THEN [kind |-> "rank", rank |-> current_rank, votes |-> reactions]
      ELSE [kind |-> "rank", rank |-> current_rank]>>
    \o FlattenLines([k \in 1..Len(posts_in_group) |->
                        CorePostLines(posts_in_group[k], include_image_links)])
    \o <<BlankLine>>

\* "for reactions in sorted_groups", core_logic.py:148-185
RECURSIVE CoreRankLoop(_, _, _, _, _)
CoreRankLoop(sorted_groups, sorted_data, current_rank, num_top, include_image_links) ==
    IF sorted_groups = <<>> \/ RankLimitReached(current_rank, num_top) THEN <<>>
    ELSE LET posts_in_group == PostsWithCount(sorted_data, Head(sorted_groups)) IN
         CoreGroupLines(current_rank, Head(sorted_groups), posts_in_group,
                        include_image_links)
         \o CoreRankLoop(Tail(sorted_groups), sorted_data,
                         NextRank(current_rank, posts_in_group), num_top,
                         include_image_links)

\* generate_markdown_output, src/core_logic.py:114-187
generate_markdown_output(d, num_top_posts, total_posts, total_votes, total_voters, include_image_links) ==
    LET head == SummaryLines(total_posts, total_votes,
                             total_voters)
        sorted_data == SortedByReactionsDesc(d)
        keys == GroupKeys(sorted_data) IN
    IF d = <<>> \/ AllZero(d) THEN head \o <<[kind |-> "no_votes"]>>
    ELSE IF keys = {}
    THEN head \o <<[kind |-> "top", count |-> Min(num_top_posts, NumPositive(d))],
                   BlankLine, [kind |-> "no_votes"]>>
    ELSE head \o <<[kind |-> "top", count |-> Min(num_top_posts, NumPositive(d))],
                   BlankLine>>
         \o Joined(RStripLines(CoreRankLoop(SortedKeysDesc(keys), sorted_data, 1,
                                            num_top_posts, include_image_links)))

\* EnhancedTopN: the "Limit to top 5" of generate_enhanced_ranking
EnhancedTopN == 5

\* the lines of one post in the enhanced report, commands.py:293-303
EnhancedPostLines(p) ==
    <<[kind |-> "post", author |-> p.author, post_link |-> p.post_link],
      [kind |-> "post_votes", count |-> p.reactions, emojis |-> EmojisOf(p)]>>

\* the lines of one rank group, commands.py:284-306
EnhancedGroupLines(current_rank, reactions, posts_in_group) ==
    <<[kind |-> "rank", rank |-> current_rank, votes |-> reactions]>>
    \o FlattenLines([k \in 1..Len(posts_in_group) |->
                        EnhancedPostLines(posts_in_group[k])])
    \o <<BlankLine>>

\* "for reactions in sorted_groups", commands.py:280-307
RECURSIVE EnhancedRankLoop(_, _, _)
EnhancedRankLoop(sorted_groups, sorted_data, current_rank) ==
    IF sorted_groups = <<>> \/ RankLimitReached(current_rank, EnhancedTopN) THEN <<>>
    ELSE LET posts_in_group == PostsWithCount(sorted_data, Head(sorted_groups)) IN
         EnhancedGroupLines(current_rank, Head(sorted_groups), posts_in_group)
         \o EnhancedRankLoop(Tail(sorted_groups), sorted_data,
                             NextRank(current_rank, posts_in_group))

\* generate_enhanced_ranking, src/commands.py:248-309
generate_enhanced_ranking(d, total_posts, total_votes, total_voters) ==
    LET head == SummaryLines(total_posts, total_votes,
                             total_voters)
        sorted_data == SortedByReactionsDesc(d)
        keys == GroupKeys(sorted_data) IN
    IF d = <<>> \/ AllZero(d) THEN head \o <<[kind |-> "no_votes"]>>
    ELSE IF keys = {}
    THEN head \o <<[kind |-> "top", count |-> Min(EnhancedTopN, NumPositive(d))],
                   BlankLine, [kind |-> "no_votes"]>>
    ELSE head \o <<[kind |-> "top", count |-> Min(EnhancedTopN, NumPositive(d))],
                   BlankLine>>
         \o Joined(RStripLines(EnhancedRankLoop(SortedKeysDesc(keys), sorted_data, 1)))

\* the heading block of main.py:171-175
MainSummaryLines(total_posts, total_votes, total_voters) ==
    <<[kind |-> "title"], BlankLine,
      [kind |-> "photos", count |-> total_posts],
      [kind |-> "votes", count |-> total_votes],
      [kind |-> "voters", count |-> total_voters],
      BlankLine, [kind |-> "top_heading"], BlankLine>>

\* the lines of one post, main.py:207-224
MainPostLines(p, include_image_links) ==
    <<[kind |-> "post", author |-> p.author, post_link |-> p.post_link]>>
    \o (IF include_image_links /\ FirstField(p.image_links) # <<>>
        THEN <<[kind |-> "image", link |-> FirstField(p.image_links)]>>
        ELSE <<>>)
    \o (IF include_image_links
        THEN <<[kind |-> "post_votes", count |-> p.reactions, emojis |-> EmojisOf(p)]>>
        ELSE <<>>)

\* the lines of one rank group, main.py:198-226 (no spacing line)
MainGroupLines(current_rank, reactions, posts_in_group, include_image_links) ==
    <<IF include_image_links
      THEN [kind |-> "rank", rank |-> current_rank, votes |-> reactions]
      ELSE [kind |-> "rank", rank |-> current_rank]>>
    \o FlattenLines([k \in 1..Len(posts_in_group) |->
                        MainPostLines(posts_in_group[k], include_image_links)])

\* "for reactions in sorted_groups", main.py:194-227
RECURSIVE MainRankLoop(_, _, _, _, _)
MainRankLoop(sorted_groups, sorted_data, current_rank, num_top, include_image_links) ==
    IF sorted_groups = <<>> \/ RankLimitReached(current_rank, num_top) THEN <<>>
    ELSE LET posts_in_group == PostsWithCount(sorted_data, Head(sorted_groups)) IN
         MainGroupLines(current_rank, Head(sorted_groups), posts_in_group,
                        include_image_links)
         \o MainRankLoop(Tail(sorted_groups), sorted_data,
                         NextRank(current_rank, posts_in_group), num_top,
                         include_image_links)

\* generate_markdown_output of main.py, src/main.py:166-229
main_generate_markdown_output(d, num_top_posts, total_posts, total_votes, total_voters, include_image_links) ==
    LET head == MainSummaryLines(total_posts, total_votes,
                                 total_voters)
        sorted_data == SortedByReactionsDesc(d) IN
    IF d = <<>> \/ AllZero(d) THEN head \o <<[kind |-> "no_votes"]>>
    ELSE head \o Joined(MainRankLoop(SortedKeysDesc(MainGroupKeys(sorted_data)),
                                     sorted_data, 1, num_top_posts,
                                     include_image_links))

\* the rank groups a rendered report shows: for each "rank" line its rank,
\* the vote count printed on it (0 - 1 when none is printed) and the post
\* links of the "post" lines up to the next "rank" line
RECURSIVE MembersFrom(_, _)
MembersFrom(lines, i) ==
    IF i > Len(lines) \/ lines[i].kind = "rank" THEN <<>>
    ELSE (IF lines[i].kind = "post" THEN <<lines[i].post_link>> ELSE <<>>)
         \o MembersFrom(lines, i + 1)

RECURSIVE RankGroupsFrom(_, _)
RankGroupsFrom(lines, i) ==
    IF i > Len(lines) THEN <<>>
    ELSE (IF lines[i].kind = "rank"
          THEN <<[rank |-> lines[i].rank,
                  shown_votes |-> IF "votes" \in DOMAIN lines[i]
                                  THEN lines[i].votes ELSE 0 - 1,
                  members |-> MembersFrom(lines, i + 1)]>>
          ELSE <<>>)
         \o RankGroupsFrom(lines, i + 1)

RankGroups(lines) == RankGroupsFrom(lines, 1)

----------------------------------------------------------------------------
(* The values of the variables of a part that a specification does not run *)

PagerIdle ==
    /\ message = <<>>
    /\ max_length = 1
    /\ parts = <<>>
    /\ pager_pc = "idle"

AggIdle ==
    /\ post = NoPost
    /\ lookups = <<>>
    /\ post_data = NoData
    /\ agg_pc = "idle"

RankIdle ==
    /\ data = <<>>
    /\ arg_num_top_posts = 0
    /\ arg_include_image_links = FALSE
    /\ renderer = "idle"
    /\ markdown = <<>>

HandlerLocalsInit ==
    /\ operation = "none"
    /\ image_messages = <<>>
    /\ processed_data = <<>>
    /\ total_image_posts_count = 0
    /\ total_thread_reactions = 0
    /\ unique_reactors_ids = {}
    /\ csv_file = <<>>
    /\ csv_filepath = "None"
    /\ outbox = <<>>
    /\ dm = <<>>
    /\ followups = <<>>
    /\ changes = 0

HandlerIdle ==
    /\ thread = <<>>
    /\ h_pc = "idle"
    /\ HandlerLocalsInit

\* no request in flight, nothing under /tmp
ConcIdle ==
    /\ requests = <<>>
    /\ tmp_files = {}

----------------------------------------------------------------------------
(* SpecPager: split_message applied to every bounded text and limit *)

PagerInit ==
    /\ message \in TextsUpTo(MaxTextLen)
    /\ max_length \in 1..MaxLimit
    /\ parts = <<>>
    /\ pager_pc = "input"
    /\ AggIdle
    /\ RankIdle
    /\ HandlerIdle
    /\ ConcIdle

SplitMessage ==
    /\ pager_pc = "input"
    /\ parts' = split_message(message, max_length)
    /\ pager_pc' = "done"
    /\ UNCHANGED <<message, max_length>>
    /\ UNCHANGED <<agg_vars, rank_vars, handler_vars, conc_vars>>

PagerNext == SplitMessage

SpecPager == PagerInit /\ [][PagerNext]_vars

----------------------------------------------------------------------------
(* Claims about the pager, checked under SpecPager *)

\* C1: every chunk returned by split_message(T, L) has length <= L, also
\* when a line longer than L arrives while the running buffer is non-empty.
\* The code puts such a line whole into the buffer and flushes it uncut.
C1_ChunksWithinLimit ==
    pager_pc = "done" => \A i \in 1..Len(parts) : Len(parts[i]) <= max_length

\* C2 as stated: joining the chunks with single newlines and trimming gives
\* the trimmed text, for every text and limit.
C2_RoundTrip ==
    pager_pc = "done" => Strip(JoinNL(parts)) = Strip(message)

\* every line of the text fits the limit, is not blank and neither starts nor
\* ends with whitespace
PlainLines(msg, limit) ==
    \A i \in 1..Len(SplitLines(msg)) :
        LET line == SplitLines(msg)[i] IN
        /\ line # <<>>
        /\ Len(line) <= limit
        /\ Head(line) \notin Whitespace
        /\ line[Len(line)] \notin Whitespace

\* C2 amended: when no line of T is longer than L, blank, or has leading or
\* trailing whitespace, joining the chunks with single newlines and trimming
\* gives exactly T trimmed.
C2_RoundTripPlainLines ==
    (pager_pc = "done" /\ PlainLines(message, max_length))
        => Strip(JoinNL(parts)) = Strip(message)

\* C2 witness: a text of plain lines split into several chunks, one of them
\* holding more than one line
C2_Witness ==
    /\ pager_pc = "done"
    /\ PlainLines(message, max_length)
    /\ Len(parts) >= 2
    /\ \E i \in 1..Len(parts) : NL \in Range(parts[i])

\* the lines of all the chunks, in order
RECURSIVE ChunkLines(_)
ChunkLines(chunks) ==
    IF chunks = <<>> THEN <<>>
    ELSE SplitLines(Head(chunks)) \o ChunkLines(Tail(chunks))

\* the lines of a text that are not empty and fit the limit
FittingLines(msg, limit) ==
    LET Fits(line) == line # <<>> /\ Len(line) <= limit IN
    SelectSeq(SplitLines(msg), Fits)

\* the lines without the whitespace at their ends, blank lines left out
StrippedLines(lines) ==
    LET NotBlank(line) == line # <<>> IN
    SelectSeq([i \in 1..Len(lines) |-> Strip(lines[i])], NotBlank)

\* s is t with some elements left out
RECURSIVE IsSubsequence(_, _)
IsSubsequence(s, t) ==
    IF s = <<>> THEN TRUE
    ELSE IF t = <<>> THEN FALSE
    ELSE IF Head(s) = Head(t) THEN IsSubsequence(Tail(s), Tail(t))
    ELSE IsSubsequence(s, Tail(t))

\* C20 as stated: every line of T that fits the limit appears whole, as it
\* is, as a line of a chunk, and the chunks follow the order of the lines.
C20_FittingLinesWhole ==
    pager_pc = "done" =>
        IsSubsequence(FittingLines(message, max_length), ChunkLines(parts))

\* C20 amended: every non-blank line of T that fits the limit appears, apart
\* from whitespace at its ends, as a whole line of a chunk, in the order of
\* the lines of T; and when every line of T fits, the lines of the chunks
\* are exactly the non-blank lines of T, each once and in order.
C20_FittingLinesWholeTrimmed ==
    pager_pc = "done" =>
        /\ IsSubsequence(StrippedLines(FittingLines(message, max_length)),
                         StrippedLines(ChunkLines(parts)))
        /\ (\A i \in 1..Len(SplitLines(message)) :
               Len(SplitLines(message)[i]) <= max_length)
              => StrippedLines(SplitLines(message)) = StrippedLines(ChunkLines(parts))

\* C20 witness: every line fits, a chunk holds two lines, and the indented
\* line that starts the next chunk is there without its indentation
C20_Witness ==
    /\ pager_pc = "done"
    /\ \A i \in 1..Len(SplitLines(message)) :
          Len(SplitLines(message)[i]) <= max_length
    /\ Len(SplitLines(message)) = 3
    /\ Len(parts) = 2
    /\ parts[1] = SplitLines(message)[1] \o <<NL>> \o SplitLines(message)[2]
    /\ Head(SplitLines(message)[3]) = " "
    /\ parts[2] = Strip(SplitLines(message)[3])
    /\ parts[2] # <<>>

\* the chunk has a character that is not whitespace
HasVisible(chunk) == \E i \in 1..Len(chunk) : chunk[i] \notin Whitespace

\* C22: split_message returns no empty or whitespace-only chunk: for every
\* text longer than the limit, each chunk has at least one non-whitespace
\* character.  The code flushes a buffer of blank lines as the chunk "", and
\* cuts slices of blanks from a long line.
C22_NoBlankChunk ==
    (pager_pc = "done" /\ Len(message) > max_length)
        => \A i \in 1..Len(parts) : HasVisible(parts[i])

\* the text without its whitespace characters
Visible(text) == LET Shown(c) == c \notin Whitespace IN SelectSeq(text, Shown)

\* the chunks one after the other
RECURSIVE Concat(_)
Concat(chunks) ==
    IF chunks = <<>> THEN <<>> ELSE Head(chunks) \o Concat(Tail(chunks))

\* C23: split_message loses, duplicates and reorders no visible content: for
\* every text and limit, the chunks concatenated in order, with every
\* whitespace character removed, are the text with every whitespace
\* character removed.
C23_VisibleContentKept ==
    pager_pc = "done" => Visible(Concat(parts)) = Visible(message)

\* C23 witness: a text of two different visible characters cut into three or
\* more chunks, one of them a slice of a line longer than the limit, and
\* whitespace of the text gone from the chunks
C23_Witness ==
    /\ pager_pc = "done"
    /\ Len(parts) >= 3
    /\ {"a", "b"} \subseteq Range(message)
    /\ \E i \in 1..Len(SplitLines(message)) :
          /\ Len(SplitLines(message)[i]) > max_length
          /\ HasVisible(SplitLines(message)[i])
    /\ Len(Concat(parts)) < Len(message)

\* C23, the text that fits: returned as it is, whitespace included
C23_WitnessFits ==
    /\ pager_pc = "done"
    /\ Len(message) <= max_length
    /\ parts = <<message>>
    /\ HasVisible(message)
    /\ Head(message) \in Whitespace

----------------------------------------------------------------------------
(* SpecAgg: get_post_data on every bounded post, every lookup outcome *)

AggPosts ==
    [id : {1}, author : Users, attachments : {OneImage(1)},
     reactions : ReactionsOver(DistinctSeqs(Users, NumUsers))]

AggInit ==
    /\ post \in AggPosts
    /\ lookups = <<>>
    /\ post_data = NoData
    /\ agg_pc = "input"
    /\ PagerIdle
    /\ RankIdle
    /\ HandlerIdle
    /\ ConcIdle

\* the call returns its dict; no lookup failure leaves it (the try/except of
\* lines 66-74 encloses the whole iteration)
GetPostData ==
    /\ agg_pc = "input"
    /\ \E o \in OutcomeSeqs(post.reactions) :
          /\ lookups' = o
          /\ post_data' = get_post_data(post, o)
    /\ agg_pc' = "done"
    /\ UNCHANGED post
    /\ UNCHANGED <<pager_vars, rank_vars, handler_vars, conc_vars>>

AggNext == GetPostData

SpecAgg == AggInit /\ [][AggNext]_vars

----------------------------------------------------------------------------
(* Claims about the aggregator, checked under SpecAgg *)

\* the (emoji, reactor) pairs of a post whose reactor is not the author
ExternalPairs(msg) ==
    {pr \in Emojis \X Users :
        /\ pr[2] # msg.author
        /\ \E i \in 1..Len(msg.reactions) :
              /\ msg.reactions[i].emoji = pr[1]
              /\ pr[2] \in Range(msg.reactions[i].users)}

AllLookupsOk == \A i \in 1..Len(lookups) : lookups[i].ok

\* C3: when every reactor lookup succeeds, the 'reactions' total equals the
\* number of (emoji, reactor) pairs of the post whose reactor is not the
\* author, whatever the order of the reactions; self-reactions never count.
C3_TotalIsExternalPairs ==
    (agg_pc = "done" /\ AllLookupsOk)
        => post_data.reactions = Cardinality(ExternalPairs(post))

\* C3 witness (scenario D): the author reacted with two emojis, one other
\* user reacted once, and the total is 1
C3_Witness ==
    /\ agg_pc = "done"
    /\ AllLookupsOk
    /\ Len(post.reactions) = 2
    /\ \A i \in 1..2 : post.author \in Range(post.reactions[i].users)
    /\ Cardinality(ExternalPairs(post)) = 1
    /\ post_data.reactions = 1

\* external reactors of reaction i of a post
ExternalCount(msg, i) ==
    Cardinality(Range(msg.reactions[i].users) \ {msg.author})

\* C4: a reaction whose lookup fails, before the first reactor or midway,
\* contributes 0 to the total and has no entry in the breakdown; the other
\* reactions are counted in full; get_post_data returns.
C4_FailedLookupContributesNothing ==
    agg_pc # "input" =>
        /\ agg_pc = "done"
        /\ post_data.reactions =
              SumSeq([i \in 1..Len(post.reactions) |->
                        IF lookups[i].ok THEN ExternalCount(post, i) ELSE 0])
        /\ \A i \in 1..Len(post.reactions) :
              ~lookups[i].ok =>
                 \A k \in 1..Len(post_data.individual_reactions) :
                    post_data.individual_reactions[k].emoji # post.reactions[i].emoji

\* the emojis listed in the breakdown of the returned dict
BreakdownEmojis ==
    {post_data.individual_reactions[k].emoji :
        k \in 1..Len(post_data.individual_reactions)}

\* C14: for every post and every outcome of the reactor lookups, also the
\* lookups that fail midway, the counts of the 'individual_reactions'
\* breakdown sum to the 'reactions' total, every listed emoji has a count of
\* at least 1, and an emoji used only by the author is not listed.
C14_BreakdownSumsToTotal ==
    agg_pc = "done" =>
        /\ SumSeq([k \in 1..Len(post_data.individual_reactions) |->
                      post_data.individual_reactions[k].count])
              = post_data.reactions
        /\ \A k \in 1..Len(post_data.individual_reactions) :
              post_data.individual_reactions[k].count >= 1
        /\ \A i \in 1..Len(post.reactions) :
              Range(post.reactions[i].users) \subseteq {post.author}
                 => post.reactions[i].emoji \notin BreakdownEmojis

\* C14 witness: the first emoji was used by the author alone, the lookup of
\* the second failed after two users that were counted; the breakdown lists
\* only the second emoji, with a count equal to the total
C14_Witness ==
    /\ agg_pc = "done"
    /\ Len(post.reactions) = 2
    /\ post.reactions[1].users = <<post.author>>
    /\ lookups[1].ok
    /\ ~lookups[2].ok
    /\ post_data.reactions = 2
    /\ post_data.individual_reactions =
          <<[emoji |-> post.reactions[2].emoji, count |-> 2]>>

\* the place of the reaction with emoji e among the reactions of the post:
\* the order in which get_post_data meets the emojis
EncounterIndex(e) == CHOOSE i \in 1..Len(post.reactions) : post.reactions[i].emoji = e

\* C15: the breakdown returned by get_post_data is ordered by count
\* descending, and emojis with equal counts are in the order in which they
\* were first met while iterating the reactions of the post.
C15_BreakdownOrder ==
    agg_pc = "done" =>
        \A k, l \in 1..Len(post_data.individual_reactions) :
            k < l =>
               LET a == post_data.individual_reactions[k]
                   b == post_data.individual_reactions[l] IN
               /\ a.count >= b.count
               /\ a.count = b.count => EncounterIndex(a.emoji) < EncounterIndex(b.emoji)

\* C15 witness: E2 is met before E1, both have the same count, and the
\* breakdown lists E2 first, against the alphabet
C15_Witness ==
    /\ agg_pc = "done"
    /\ Len(post.reactions) = 2
    /\ post.reactions[1].emoji = "E2"
    /\ post_data.individual_reactions =
          <<[emoji |-> "E2", count |-> 2], [emoji |-> "E1", count |-> 2]>>

\* C15, the other half: the emoji met later has more votes and comes first
C15_WitnessByCount ==
    /\ agg_pc = "done"
    /\ Len(post.reactions) = 2
    /\ post.reactions[1].emoji = "E1"
    /\ post_data.individual_reactions =
          <<[emoji |-> "E2", count |-> 2], [emoji |-> "E1", count |-> 1]>>

----------------------------------------------------------------------------
(* SpecRank: the renderers on every bounded list of aggregates *)

\* most aggregates in an exhaustively enumerated list
MaxPosts == 4
\* most external votes of one aggregate in such a list
MaxVotes == 3
\* largest rank limit given to generate_markdown_output
MaxTopN == 5

\* the aggregate of post i with r external votes (all with one emoji)
RankAggregate(i, r) ==
    [post_link |-> PostLink(i),
     image_links |-> JoinComma(<<Url(i, 1)>>),
     posted_at |-> PostedAt(i),
     author |-> DisplayName(1 + (i % NumUsers)),
     reactions |-> r,
     individual_reactions |->
        IF r > 0 THEN <<[emoji |-> "E1", count |-> r]>> ELSE <<>>]

AggregatesOf(counts) == [i \in 1..Len(counts) |-> RankAggregate(i, counts[i])]

\* every list of at most MaxPosts aggregates with at most MaxVotes votes each
SmallCounts == UNION {[1..k -> 0..MaxVotes] : k \in 0..MaxPosts}

\* s with x inserted so that it becomes element k
InsertAt(s, k, x) == SubSeq(s, 1, k - 1) \o <<x>> \o SubSeq(s, k, Len(s))

\* lists with more distinct vote counts than generate_enhanced_ranking shows
\* ranks: the counts 1..EnhancedTopN+1, ascending or descending, with one
\* more post tied with one of them at any place of the list
TallCounts ==
    LET n == EnhancedTopN + 1
        up == [i \in 1..n |-> i]
        down == [i \in 1..n |-> n + 1 - i] IN
    {InsertAt(base, k, x) : base \in {up, down}, k \in 1..(n + 1), x \in 1..n}

RECURSIVE SumReactions(_)
SumReactions(d) == IF d = <<>> THEN 0 ELSE Head(d).reactions + SumReactions(Tail(d))

MaxOfSet(S) == IF S = {} THEN 0 ELSE CHOOSE m \in S : \A x \in S : x <= m

\* the unique-voter counts a list of aggregates allows: at least the votes
\* of its most voted post, at most all its votes
VoterCounts(d) ==
    {MaxOfSet({d[i].reactions : i \in 1..Len(d)}), SumReactions(d)}

RankInit ==
    /\ data \in {AggregatesOf(c) : c \in SmallCounts \cup TallCounts}
    /\ arg_num_top_posts = 0
    /\ arg_include_image_links = FALSE
    /\ renderer = "input"
    /\ markdown = <<>>
    /\ PagerIdle
    /\ AggIdle
    /\ HandlerIdle
    /\ ConcIdle

\* generate_markdown_output of core_logic.py, called as the handlers call it:
\* with the number of aggregates and thread-wide totals
RenderCore ==
    /\ renderer = "input"
    /\ \E n \in 0..MaxTopN, inc \in BOOLEAN, voters \in VoterCounts(data) :
          /\ arg_num_top_posts' = n
          /\ arg_include_image_links' = inc
          /\ markdown' = generate_markdown_output(data, n, Len(data),
                                                  SumReactions(data), voters, inc)
    /\ renderer' = "core"
    /\ UNCHANGED <<data, pager_vars, agg_vars, handler_vars, conc_vars>>

\* generate_enhanced_ranking of commands.py
RenderEnhanced ==
    /\ renderer = "input"
    /\ \E voters \in VoterCounts(data) :
          markdown' = generate_enhanced_ranking(data, Len(data),
                                                SumReactions(data), voters)
    /\ arg_num_top_posts' = EnhancedTopN
    /\ arg_include_image_links' = TRUE
    /\ renderer' = "enhanced"
    /\ UNCHANGED <<data, pager_vars, agg_vars, handler_vars, conc_vars>>

\* generate_markdown_output of main.py
RenderMain ==
    /\ renderer = "input"
    /\ \E n \in 0..MaxTopN, inc \in BOOLEAN, voters \in VoterCounts(data) :
          /\ arg_num_top_posts' = n
          /\ arg_include_image_links' = inc
          /\ markdown' = main_generate_markdown_output(data, n, Len(data),
                                                       SumReactions(data), voters, inc)
    /\ renderer' = "main"
    /\ UNCHANGED <<data, pager_vars, agg_vars, handler_vars, conc_vars>>

RankNext == RenderCore \/ RenderEnhanced \/ RenderMain

SpecRank == RankInit /\ [][RankNext]_vars

----------------------------------------------------------------------------
(* Claims about the leaderboard, checked under SpecRank *)

\* the vote count of the aggregate with the given post link
VotesOf(link) ==
    LET i == CHOOSE j \in 1..Len(data) : data[j].post_link = link IN data[i].reactions

\* the position in data of the aggregate with the given post link
IndexOf(link) == CHOOSE j \in 1..Len(data) : data[j].post_link = link

\* the distinct positive vote counts of data
PositiveCounts == {data[i].reactions : i \in 1..Len(data)} \ {0}

\* the renderers of core_logic.py and commands.py
CoreOrEnhanced == renderer \in {"core", "enhanced"}

\* C7: dense ranking in generate_markdown_output (and its copy in
\* generate_enhanced_ranking): the ranks are 1, 2, ..., k without gaps, the
\* members of a group share one vote count (the one printed on the rank
\* line, when one is printed), posts with the same positive count are in
\* the same group, and the counts strictly decrease with the rank.
C7_DenseRanking ==
    CoreOrEnhanced =>
        LET g == RankGroups(markdown) IN
        /\ \A k \in 1..Len(g) : g[k].rank = k
        /\ \A k \in 1..Len(g) :
              /\ g[k].members # <<>>
              /\ \A m \in 1..Len(g[k].members) :
                    /\ VotesOf(g[k].members[m]) = VotesOf(g[k].members[1])
                    /\ g[k].shown_votes \in {0 - 1, VotesOf(g[k].members[m])}
        /\ \A i, j \in 1..Len(data) :
              (data[i].reactions = data[j].reactions /\ data[i].reactions > 0) =>
                 \A k \in 1..Len(g) :
                    data[i].post_link \in Range(g[k].members)
                       <=> data[j].post_link \in Range(g[k].members)
        /\ \A k \in 1..(Len(g) - 1) :
              VotesOf(g[k].members[1]) > VotesOf(g[k + 1].members[1])

\* C7 witness (scenario A): counts [3, 3, 1] and top_n = 5 give rank 1 =
\* {P1, P2} with 3 votes and rank 2 = {P3} with 1 vote
C7_Witness ==
    /\ renderer = "core"
    /\ arg_include_image_links
    /\ arg_num_top_posts = 5
    /\ Len(data) = 3
    /\ data[1].reactions = 3 /\ data[2].reactions = 3 /\ data[3].reactions = 1
    /\ RankGroups(markdown) =
          <<[rank |-> 1, shown_votes |-> 3, members |-> <<PostLink(1), PostLink(2)>>],
            [rank |-> 2, shown_votes |-> 1, members |-> <<PostLink(3)>>]>>

\* C8: the ranking is stable: the members of every rank group are in the
\* relative order they have in the list of aggregates.
C8_StableRanking ==
    CoreOrEnhanced =>
        \A k \in 1..Len(RankGroups(markdown)) :
            LET m == RankGroups(markdown)[k].members IN
            \A a, b \in 1..Len(m) : a < b => IndexOf(m[a]) < IndexOf(m[b])

\* C8 witness: a tie group of two posts that the sort had to move in front of
\* a post with fewer votes listed before them
C8_Witness ==
    /\ renderer = "core"
    /\ \E k \in 1..Len(RankGroups(markdown)) :
          LET m == RankGroups(markdown)[k].members IN
          /\ Len(m) >= 2
          /\ \E i \in 1..Len(data) :
                /\ i < IndexOf(m[1])
                /\ data[i].reactions > 0
                /\ data[i].reactions < VotesOf(m[1])

\* C9: the leaderboard has exactly min(top_n, number of distinct positive
\* vote counts) rank groups, they are the groups of the highest counts, and
\* each lists all the posts with its count (a tie is never cut at the limit).
C9_TopNTruncation ==
    CoreOrEnhanced =>
        LET g == RankGroups(markdown) IN
        /\ Len(g) = Min(arg_num_top_posts, Cardinality(PositiveCounts))
        /\ \A k \in 1..Len(g) :
              /\ g[k].members # <<>>
              /\ Cardinality({c \in PositiveCounts : c > VotesOf(g[k].members[1])}) = k - 1
              /\ Range(g[k].members) =
                    {data[i].post_link : i \in {j \in 1..Len(data) :
                        data[j].reactions = VotesOf(g[k].members[1])}}
              /\ Len(g[k].members) = Cardinality(Range(g[k].members))

\* C9 witness: the limit cuts the leaderboard, the last rank shown is a tie,
\* and more posts than top_n are listed; reached by both renderers
C9_WitnessOf(r) ==
    /\ renderer = r
    /\ LET g == RankGroups(markdown) IN
       /\ Len(g) >= 1
       /\ Len(g) = arg_num_top_posts
       /\ arg_num_top_posts < Cardinality(PositiveCounts)
       /\ Len(g[Len(g)].members) >= 2
       /\ SumSeq([k \in 1..Len(g) |-> Len(g[k].members)]) > arg_num_top_posts

C9_Witness == C9_WitnessOf("core")

C9_WitnessEnhanced == C9_WitnessOf("enhanced")

\* C10: in the report of every renderer of the repository no rank group has
\* vote count 0 and none is empty, while the header counts every post.
C10_NoZeroVoteGroup ==
    renderer \in {"core", "enhanced", "main"} =>
        /\ \A k \in 1..Len(RankGroups(markdown)) :
              LET g == RankGroups(markdown)[k] IN
              /\ g.members # <<>>
              /\ \A m \in 1..Len(g.members) : VotesOf(g.members[m]) > 0
              /\ g.shown_votes # 0
        /\ \E i \in 1..Len(markdown) :
              markdown[i] = [kind |-> "photos", count |-> Len(data)]

\* what C10 says of the renderers of core_logic.py and commands.py alone
NoZeroVoteGroupCoreEnhanced ==
    CoreOrEnhanced => C10_NoZeroVoteGroup

\* every aggregate of data has 0 external reactions (data may be empty)
NoExternalVotes == \A i \in 1..Len(data) : data[i].reactions = 0

\* C11: when the list of aggregates is empty or every aggregate has 0
\* external reactions, the report of generate_markdown_output (with and
\* without the details) and of generate_enhanced_ranking is the header block,
\* whose total photos is the number of aggregates, followed only by the
\* no-votes sentence: no "Top N" line and no rank group.
C11_EmptyLeaderboard ==
    (CoreOrEnhanced /\ NoExternalVotes) =>
        /\ Len(markdown) = 8
        /\ [i \in 1..8 |-> markdown[i].kind] =
              <<"title", "blank", "summary", "photos", "votes", "voters",
                "blank", "no_votes">>
        /\ markdown[4].count = Len(data)
        /\ \A i \in 1..Len(markdown) : markdown[i].kind \notin {"top", "rank", "post"}
        /\ RankGroups(markdown) = <<>>

\* C11 witness (scenario B): several posts, none with an external vote,
\* rendered by generate_markdown_output in the summary version
C11_Witness ==
    /\ renderer = "core"
    /\ ~arg_include_image_links
    /\ arg_num_top_posts >= 1
    /\ Len(data) >= 2
    /\ NoExternalVotes
    /\ markdown[4] = [kind |-> "photos", count |-> Len(data)]
    /\ markdown[Len(markdown)].kind = "no_votes"

\* the same case in the report of generate_enhanced_ranking
C11_WitnessEnhanced ==
    /\ renderer = "enhanced"
    /\ Len(data) >= 2
    /\ NoExternalVotes
    /\ markdown[Len(markdown)].kind = "no_votes"

\* C17: the summary version of the report, generate_markdown_output with
\* include_image_links = False, contains no author name and no post link:
\* none of its lines carries an author or a link, so that aggregates
\* differing only in their authors and links give the same text.
C17_SummaryHasNoAuthor ==
    (renderer = "core" /\ ~arg_include_image_links) =>
        \A i \in 1..Len(markdown) :
            /\ "author" \notin DOMAIN markdown[i]
            /\ "post_link" \notin DOMAIN markdown[i]

----------------------------------------------------------------------------
(* The analysis request: handle_full_analysis (src/commands.py:87-179) and  *)
(* handle_short_analysis (src/commands.py:181-246)                          *)

\* most messages in the thread
MaxThreadPosts == 2
\* number of users who post and react in the thread
NumThreadUsers == 2
\* most reactions (distinct emojis) on one message of the thread
MaxThreadReactions == 1
\* reaction changes by other users while a request runs
MaxChanges == 1
\* the per-message character limit the handler pages the report to; the
\* program's 2000, scaled to the widths LineText gives the lines
MessageLimit == 16

ThreadUsers == 1..NumThreadUsers

\* the elements of a set of numbers in ascending order
RECURSIVE AscSeq(_)
AscSeq(S) ==
    IF S = {} THEN <<>>
    ELSE LET m == CHOOSE x \in S : \A y \in S : x <= y IN <<m>> \o AscSeq(S \ {m})

\* the reactions a message of the thread can have: distinct emojis, each
\* with the users the platform lists for it
ThreadReactions ==
    {r \in UNION {[1..k -> [emoji : Emojis,
                            users : {AscSeq(U) : U \in SUBSET ThreadUsers}]] :
                    k \in 0..MaxThreadReactions} :
        \A i, j \in 1..Len(r) : i # j => r[i].emoji # r[j].emoji}

\* the messages that can be at place id of the thread: image posts by any
\* user with any reactions, and messages that are no image posts
ThreadMessages(id) ==
    [id : {id}, author : ThreadUsers, attachments : {OneImage(id)},
     reactions : ThreadReactions]
    \cup [id : {id}, author : {1},
          attachments : {<<>>,
                         <<[url |-> Url(id, 1), content_type |-> VideoMp4]>>,
                         <<[url |-> Url(id, 1), content_type |-> None]>>},
          reactions : {<<>>}]

Threads ==
    {t \in UNION {[1..k -> UNION {ThreadMessages(id) : id \in 1..MaxThreadPosts}] :
                    k \in 0..MaxThreadPosts} :
        \A i \in 1..Len(t) : t[i].id = i}

\* a plausible bug: only the first attachment of a message is looked at
HasImageFirstOnly(m) == IsImage(m.attachments[1])

\* any(att is an image for att in message.attachments)
HasImage(m) == \E k \in 1..Len(m.attachments) : IsImage(m.attachments[k])

\* filter_image_posts, src/core_logic.py:44-53
RECURSIVE filter_image_posts(_)
filter_image_posts(messages) ==
    IF messages = <<>> THEN <<>>
    ELSE (IF Head(messages).attachments # <<>> /\ HasImage(Head(messages))
          THEN <<Head(messages)>> ELSE <<>>)
         \o filter_image_posts(Tail(messages))

\* a fetched Message object with the reactors reaction.users() finds now
Live(m) == thread[m.id]

\* the dicts get_post_data can return for a message, one per way its
\* reactor lookups can end
PostDataChoices(m) == {get_post_data(m, o) : o \in OutcomeSeqs(m.reactions)}

\* a plausible bug: the author is not taken out of the reactors
AllReactors(m, k) == Range(m.reactions[k].users)

\* the summary pass, src/commands.py:122-132: the reactors that are not the
\* author, per message and reaction
ExternalReactors(m, k) == Range(m.reactions[k].users) \ {m.author}

SummaryTotal(messages) ==
    SumSeq([i \in 1..Len(messages) |->
              SumSeq([k \in 1..Len(messages[i].reactions) |->
                        Cardinality(ExternalReactors(messages[i], k))])])

SummaryReactors(messages) ==
    UNION {UNION {ExternalReactors(messages[i], k) :
                    k \in 1..Len(messages[i].reactions)} :
             i \in 1..Len(messages)}

\* the number of reactor lookups of the summary pass
NumLookups(messages) ==
    SumSeq([i \in 1..Len(messages) |-> Len(messages[i].reactions)])

\* fieldnames, src/core_logic.py:94
Fieldnames == <<"post_link", "image_links", "posted_at", "author", "reactions">>

\* a plausible bug: the breakdown is left in the item given to the writer
CsvItemKeepsBreakdown(item) == item

\* temp_item = item.copy(); temp_item.pop('individual_reactions', None)
CsvItem(item) == [f \in DOMAIN item \ {"individual_reactions"} |-> item[f]]

\* csv_data, src/core_logic.py:95-99
CsvData(d) == [i \in 1..Len(d) |-> CsvItem(d[i])]

\* what csv.DictWriter(csvfile, fieldnames=fieldnames) writes for one dict:
\* the values of the fieldnames, '' for a missing key
CsvRow(row) ==
    [f \in Range(Fieldnames) |-> IF f \in DOMAIN row THEN row[f] ELSE <<>>]

CsvRows(d) == [i \in 1..Len(d) |-> CsvRow(CsvData(d)[i])]

\* DictWriter raises ValueError for a dict with a key that is no fieldname
HasExtraKey(d) ==
    \E i \in 1..Len(d) : ~(DOMAIN CsvData(d)[i] \subseteq Range(Fieldnames))

\* generate_csv, src/core_logic.py:88-112; io_ok: the file could be opened
\* and written.  Only IOError is caught (line 110).
generate_csv(d, io_ok) ==
    IF d = <<>> THEN [filepath |-> "None", rows |-> <<>>, raised |-> FALSE]
    ELSE IF ~io_ok THEN [filepath |-> "None", rows |-> <<>>, raised |-> FALSE]
    ELSE IF HasExtraKey(d) THEN [filepath |-> "None", rows |-> <<>>, raised |-> TRUE]
    ELSE [filepath |-> "path", rows |-> CsvRows(d), raised |-> FALSE]

\* the text of a report line, with its width scaled down: one visible
\* character per line, after one blank for the indented lines of a post
LineText(line) ==
    CASE line.kind = "blank" -> <<>>
      [] line.kind = "rank" -> <<"b">>
      [] line.kind = "post" -> <<" ", "a">>
      [] line.kind = "image" -> <<" ", "a">>
      [] line.kind = "post_votes" -> <<" ", "b">>
      [] OTHER -> <<"a">>

\* the report as one text
ReportText(lines) == JoinNL([i \in 1..Len(lines) |-> LineText(lines[i])])

\* commands.py:168-173: the report in messages of at most the limit
ReportParts(text) ==
    IF Len(text) > MessageLimit THEN split_message(text, MessageLimit) ELSE <<text>>

ReportMessages(chunks) ==
    [i \in 1..Len(chunks) |-> [kind |-> "report", text |-> chunks[i]]]

HandlerInit ==
    /\ thread \in Threads
    /\ h_pc = "start"
    /\ HandlerLocalsInit
    /\ PagerIdle
    /\ AggIdle
    /\ RankIdle
    /\ ConcIdle

\* lines 91-100 (185-194): outside a guild the handler answers and returns;
\* otherwise it announces the analysis.  The interaction's followup responses
\* are taken to be delivered.
Start ==
    /\ h_pc = "start"
    /\ \E op \in {"full", "short"}, in_guild \in BOOLEAN :
          /\ operation' = op
          /\ IF in_guild
             THEN /\ followups' = Append(followups, "analyzing")
                  /\ h_pc' = "fetch"
             ELSE /\ followups' = Append(followups, "guild_only")
                  /\ h_pc' = "done"
    /\ UNCHANGED <<thread, image_messages, processed_data, total_image_posts_count,
                   total_thread_reactions, unique_reactors_ids, csv_file,
                   csv_filepath, outbox, dm, changes>>
    /\ UNCHANGED <<pager_vars, agg_vars, rank_vars, conc_vars>>

\* lines 103-116 (197-210): get_thread_messages returns the messages, or []
\* on any failure; then the image posts are selected
Fetch ==
    /\ h_pc = "fetch"
    /\ \E fetched \in BOOLEAN :
          LET all_messages == IF fetched THEN thread ELSE <<>> IN
          IF all_messages = <<>>
          THEN /\ followups' = Append(followups, "could_not_fetch")
               /\ h_pc' = "done"
               /\ UNCHANGED image_messages
          ELSE /\ image_messages' = filter_image_posts(all_messages)
               /\ IF filter_image_posts(all_messages) = <<>>
                  THEN /\ followups' = Append(followups, "no_image_posts")
                       /\ h_pc' = "done"
                  ELSE /\ h_pc' = "aggregate"
                       /\ UNCHANGED followups
    /\ UNCHANGED <<thread, operation, processed_data, total_image_posts_count,
                   total_thread_reactions, unique_reactors_ids, csv_file,
                   csv_filepath, outbox, dm, changes>>
    /\ UNCHANGED <<pager_vars, agg_vars, rank_vars, conc_vars>>

\* line 118 (212): processed_data = [await get_post_data(msg) for msg in
\* image_messages], every reactor lookup ending in any of its ways
Aggregate ==
    /\ h_pc = "aggregate"
    /\ processed_data' \in
          {pd \in [1..Len(image_messages) ->
                     UNION {PostDataChoices(Live(image_messages[k])) :
                              k \in 1..Len(image_messages)}] :
              \A k \in 1..Len(image_messages) :
                 pd[k] \in PostDataChoices(Live(image_messages[k]))}
    /\ h_pc' = "summarise"
    /\ UNCHANGED <<thread, operation, image_messages, total_image_posts_count,
                   total_thread_reactions, unique_reactors_ids, csv_file,
                   csv_filepath, outbox, dm, followups, changes>>
    /\ UNCHANGED <<pager_vars, agg_vars, rank_vars, conc_vars>>

\* another user adds or removes their reaction on a message of the thread
\* while the handler is suspended between its two passes over the reactions
ReactionChange ==
    /\ h_pc = "summarise"
    /\ changes < MaxChanges
    /\ \E i \in 1..Len(thread), u \in ThreadUsers :
          \E k \in 1..Len(thread[i].reactions) :
             thread' = [thread EXCEPT ![i].reactions[k].users =
                           AscSeq((Range(@) \ {u}) \cup ({u} \ Range(@)))]
    /\ changes' = changes + 1
    /\ UNCHANGED <<operation, h_pc, image_messages, processed_data,
                   total_image_posts_count, total_thread_reactions,
                   unique_reactors_ids, csv_file, csv_filepath, outbox, dm,
                   followups>>
    /\ UNCHANGED <<pager_vars, agg_vars, rank_vars, conc_vars>>

\* lines 121-132 (215-226): the second pass over the reactions, which looks
\* the reactors up again outside any try block: a failing lookup ends the
\* handler with the exception
Summarise ==
    /\ h_pc = "summarise"
    /\ \E lookups_ok \in {TRUE} \cup {FALSE : x \in 1..NumLookups(image_messages)} :
          IF lookups_ok
          THEN /\ total_image_posts_count' = Len(processed_data)
               /\ total_thread_reactions' =
                     SummaryTotal([k \in 1..Len(image_messages) |->
                                      Live(image_messages[k])])
               /\ unique_reactors_ids' =
                     SummaryReactors([k \in 1..Len(image_messages) |->
                                         Live(image_messages[k])])
               /\ h_pc' = "render"
          ELSE /\ h_pc' = "raised"
               /\ UNCHANGED <<total_image_posts_count, total_thread_reactions,
                              unique_reactors_ids>>
    /\ UNCHANGED <<thread, operation, image_messages, processed_data, csv_file,
                   csv_filepath, outbox, dm, followups, changes>>
    /\ UNCHANGED <<pager_vars, agg_vars, rank_vars, conc_vars>>

\* handle_full_analysis, lines 135-173: the CSV file is written (or not, on
\* an IOError), the reports are rendered, and the messages to send are the
\* CSV message and the enhanced report in parts.  The two reports of
\* generate_markdown_output (lines 143-148) are computed and not used.
RenderFull ==
    /\ h_pc = "render"
    /\ operation = "full"
    /\ \E io_ok \in BOOLEAN :
          LET csv == generate_csv(processed_data, io_ok)
              enhanced_report ==
                 ReportText(generate_enhanced_ranking(
                    processed_data, total_image_posts_count,
                    total_thread_reactions, Cardinality(unique_reactors_ids))) IN
          /\ csv_filepath' = csv.filepath
          /\ csv_file' = csv.rows
          /\ outbox' = IF csv.raised THEN <<>>
                       ELSE <<IF csv.filepath # "None"
                              THEN [kind |-> "csv", rows |-> csv.rows]
                              ELSE [kind |-> "csv_failed"]>>
                            \o ReportMessages(ReportParts(enhanced_report))
          /\ h_pc' = IF csv.raised THEN "raised" ELSE "deliver"
    /\ UNCHANGED <<thread, operation, image_messages, processed_data,
                   total_image_posts_count, total_thread_reactions,
                   unique_reactors_ids, dm, followups, changes>>
    /\ UNCHANGED <<pager_vars, agg_vars, rank_vars, conc_vars>>

\* handle_short_analysis, lines 230-241: the summary-only message
RenderShort ==
    /\ h_pc = "render"
    /\ operation = "short"
    /\ outbox' = <<[kind |-> "summary_only",
                    photos |-> total_image_posts_count,
                    votes |-> total_thread_reactions,
                    voters |-> Cardinality(unique_reactors_ids)]>>
    /\ h_pc' = "deliver"
    /\ UNCHANGED <<thread, operation, image_messages, processed_data,
                   total_image_posts_count, total_thread_reactions,
                   unique_reactors_ids, csv_file, csv_filepath, dm, followups,
                   changes>>
    /\ UNCHANGED <<pager_vars, agg_vars, rank_vars, conc_vars>>

\* one "await interaction.user.send(...)" of the try block, lines 154-173
\* (240-241): it delivers the next message, or raises and the handler goes
\* to the except clause (line 177, 244)
Send ==
    /\ h_pc = "deliver"
    /\ outbox # <<>>
    /\ \E sent \in BOOLEAN :
          IF sent
          THEN /\ dm' = Append(dm, Head(outbox))
               /\ outbox' = Tail(outbox)
               /\ UNCHANGED h_pc
          ELSE /\ h_pc' = "except"
               /\ UNCHANGED <<dm, outbox>>
    /\ UNCHANGED <<thread, operation, image_messages, processed_data,
                   total_image_posts_count, total_thread_reactions,
                   unique_reactors_ids, csv_file, csv_filepath, followups,
                   changes>>
    /\ UNCHANGED <<pager_vars, agg_vars, rank_vars, conc_vars>>

\* line 176 (243), the last statement of the try block: everything was
\* sent, the handler confirms and returns; if this followup.send raises, the
\* handler goes to the except clause as well
Confirm ==
    /\ h_pc = "deliver"
    /\ outbox = <<>>
    /\ \E sent \in BOOLEAN :
          IF sent
          THEN /\ followups' = Append(followups, "complete")
               /\ h_pc' = "done"
          ELSE /\ h_pc' = "except"
               /\ UNCHANGED followups
    /\ UNCHANGED <<thread, operation, image_messages, processed_data,
                   total_image_posts_count, total_thread_reactions,
                   unique_reactors_ids, csv_file, csv_filepath, outbox, dm,
                   changes>>
    /\ UNCHANGED <<pager_vars, agg_vars, rank_vars, conc_vars>>

\* lines 177-179 (244-246), the except clause: the failure notice is sent
\* as a followup; this send is in no try block, so if it raises the handler
\* ends with the exception
Notify ==
    /\ h_pc = "except"
    /\ \E sent \in BOOLEAN :
          IF sent
          THEN /\ followups' = Append(followups, "dm_failed")
               /\ h_pc' = "done"
          ELSE /\ h_pc' = "raised"
               /\ UNCHANGED followups
    /\ UNCHANGED <<thread, operation, image_messages, processed_data,
                   total_image_posts_count, total_thread_reactions,
                   unique_reactors_ids, csv_file, csv_filepath, outbox, dm,
                   changes>>
    /\ UNCHANGED <<pager_vars, agg_vars, rank_vars, conc_vars>>

Next ==
    \/ Start
    \/ Fetch
    \/ Aggregate
    \/ ReactionChange
    \/ Summarise
    \/ RenderFull
    \/ RenderShort
    \/ Send
    \/ Confirm
    \/ Notify

Spec == HandlerInit /\ [][Next]_vars

----------------------------------------------------------------------------
(* Claims about the analysis request, checked under Spec *)

\* the responses that end a request
TerminalResponses ==
    {"guild_only", "could_not_fetch", "no_image_posts", "complete", "dm_failed"}

\* the handler has computed the totals it renders
TotalsComputed == h_pc \in {"render", "deliver"} \/ (h_pc = "done" /\ processed_data # <<>>)

\* C5: in every analysis request the thread-wide total of external votes
\* given to the renderer is the sum of the 'reactions' totals of the
\* aggregates, and total_posts is the number of aggregates, whatever the
\* reactor lookups did and whatever changed between the two passes.
C5_TotalIsSumOfAggregates ==
    TotalsComputed =>
        /\ total_thread_reactions = SumReactions(processed_data)
        /\ total_image_posts_count = Len(processed_data)

\* C6: no error escapes an analysis request: the handler never ends with an
\* exception, and when it has returned its last response to the requester
\* is a terminal one (the report confirmation or an explicit notice).
C6_NoErrorEscapes ==
    /\ h_pc # "raised"
    /\ h_pc = "done" =>
          /\ followups # <<>>
          /\ followups[Len(followups)] \in TerminalResponses

----------------------------------------------------------------------------
(* SpecFilter: filter_image_posts on every bounded list of messages *)

\* most messages in a list given to filter_image_posts
MaxFilterPosts == 2
\* most attachments of one such message
MaxAttachments == 2

\* the content types of the attachments of one message, in their order
ContentTypeLists == UNION {[1..n -> ContentTypes] : n \in 0..MaxAttachments}

\* message id with attachments of the given content types
FilterMessage(id, cts) ==
    [id |-> id, author |-> 1,
     attachments |-> [j \in 1..Len(cts) |->
                        [url |-> Url(id, j), content_type |-> cts[j]]],
     reactions |-> <<>>]

\* every list of messages within the bounds: the message at place i has id i
FilterInit ==
    /\ \E k \in 0..MaxFilterPosts :
          \E cts \in [1..k -> ContentTypeLists] :
             thread = [i \in 1..k |-> FilterMessage(i, cts[i])]
    /\ h_pc = "filter_input"
    /\ HandlerLocalsInit
    /\ PagerIdle
    /\ AggIdle
    /\ RankIdle
    /\ ConcIdle

\* image_messages = filter_image_posts(all_messages)
FilterImagePosts ==
    /\ h_pc = "filter_input"
    /\ image_messages' = filter_image_posts(thread)
    /\ h_pc' = "filtered"
    /\ UNCHANGED <<thread, operation, processed_data, total_image_posts_count,
                   total_thread_reactions, unique_reactors_ids, csv_file,
                   csv_filepath, outbox, dm, followups, changes>>
    /\ UNCHANGED <<pager_vars, agg_vars, rank_vars, conc_vars>>

FilterNext == FilterImagePosts

SpecFilter == FilterInit /\ [][FilterNext]_vars

----------------------------------------------------------------------------
(* Claims about the post filter, checked under SpecFilter *)

\* message m has an attachment whose content type starts with 'image/'
QualifiesAsImagePost(m) ==
    \E j \in 1..Len(m.attachments) : IsImage(m.attachments[j])

\* C12: filter_image_posts returns exactly the input posts that have at
\* least one attachment whose content type starts with 'image/', each once
\* and in their original relative order; posts without attachments, with
\* only non-image attachments or with attachments without a content type are
\* excluded, and the empty list gives the empty list.
C12_FilterKeepsImagePosts ==
    h_pc = "filtered" =>
        /\ \A k \in 1..Len(image_messages) :
              /\ image_messages[k].id \in 1..Len(thread)
              /\ image_messages[k] = thread[image_messages[k].id]
        /\ \A a, b \in 1..Len(image_messages) :
              a < b => image_messages[a].id < image_messages[b].id
        /\ \A i \in 1..Len(thread) :
              (\E k \in 1..Len(image_messages) : image_messages[k].id = i)
                 <=> QualifiesAsImagePost(thread[i])
        /\ thread = <<>> => image_messages = <<>>

\* C12 witness: a post whose attachments are a video and one without content
\* type is dropped, and the post after it, with two image attachments, is
\* returned once
C12_Witness ==
    /\ h_pc = "filtered"
    /\ Len(thread) = 2
    /\ Len(thread[1].attachments) = 2
    /\ thread[1].attachments[1].content_type = VideoMp4
    /\ thread[1].attachments[2].content_type = None
    /\ Len(thread[2].attachments) = 2
    /\ \A j \in 1..2 : IsImage(thread[2].attachments[j])
    /\ image_messages = <<thread[2]>>

\* C12, the order: two posts qualify, the first by its second attachment,
\* and come out in their order
C12_WitnessOrder ==
    /\ h_pc = "filtered"
    /\ Len(thread) = 2
    /\ Len(thread[1].attachments) = 2
    /\ ~IsImage(thread[1].attachments[1])
    /\ IsImage(thread[1].attachments[2])
    /\ image_messages = thread

----------------------------------------------------------------------------
(* SpecSummary: the summary pass of the handlers (src/commands.py:120-132, *)
(* 214-226) and what follows it, on every bounded list of image posts with *)
(* several reactions each                                                  *)

\* most image posts in a thread of SpecSummary
MaxSummaryPosts == 2
\* most reactions (distinct emojis) on one of its posts
MaxSummaryReactions == 2

\* the reactions of one such post: distinct emojis, each with any users
SummaryReactions ==
    {r \in UNION {[1..k -> [emoji : Emojis,
                            users : {AscSeq(U) : U \in SUBSET ThreadUsers}]] :
                    k \in 0..MaxSummaryReactions} :
        \A i, j \in 1..Len(r) : i # j => r[i].emoji # r[j].emoji}

\* the handler after "processed_data = [...]" (line 118, 212) of a request
\* made in a guild on a thread of image posts, whose lookups all succeeded
SummaryInit ==
    /\ \E k \in 1..MaxSummaryPosts :
          \E authors \in [1..k -> ThreadUsers], reacts \in [1..k -> SummaryReactions] :
             thread = [i \in 1..k |->
                         [id |-> i, author |-> authors[i],
                          attachments |-> OneImage(i), reactions |-> reacts[i]]]
    /\ operation \in {"full", "short"}
    /\ h_pc = "summarise"
    /\ image_messages = filter_image_posts(thread)
    /\ processed_data =
          [k \in 1..Len(thread) |->
              get_post_data(thread[k], AllOk(thread[k].reactions))]
    /\ total_image_posts_count = 0
    /\ total_thread_reactions = 0
    /\ unique_reactors_ids = {}
    /\ csv_file = <<>>
    /\ csv_filepath = "None"
    /\ outbox = <<>>
    /\ dm = <<>>
    /\ followups = <<"analyzing">>
    /\ changes = 0
    /\ PagerIdle
    /\ AggIdle
    /\ RankIdle
    /\ ConcIdle

SummaryNext ==
    \/ ReactionChange
    \/ Summarise
    \/ RenderFull
    \/ RenderShort

SpecSummary == SummaryInit /\ [][SummaryNext]_vars

----------------------------------------------------------------------------
(* Claims about the summary figures, checked under SpecSummary *)

\* the users who reacted to message m with any emoji
ReactorsOf(m) == UNION {Range(m.reactions[k].users) : k \in 1..Len(m.reactions)}

\* the union, over the qualifying posts, of the reactors minus the author
ExpectedVoters ==
    UNION {ReactorsOf(thread[i]) \ {thread[i].author} :
             i \in {j \in 1..Len(thread) : QualifiesAsImagePost(thread[j])}}

\* C13: the unique-voter count of the header is the size of the union, over
\* the qualifying posts, of the reactors of the post minus its author: a
\* user counts once however many posts or emojis they reacted with, an
\* author who reacted to another author's post counts, and a user who
\* reacted only to their own posts does not.
C13_UniqueVoters ==
    TotalsComputed =>
        /\ unique_reactors_ids = ExpectedVoters
        /\ \A i \in 1..Len(outbox) :
              outbox[i].kind = "summary_only" =>
                 outbox[i].voters = Cardinality(ExpectedVoters)

\* C13 witness: user 1 wrote post 1 and reacted to it and, with two emojis,
\* to post 2 of user 2; user 2 reacted only to their own post; the summary
\* message says 1 voter
C13_Witness ==
    /\ h_pc = "deliver"
    /\ operation = "short"
    /\ Len(thread) = 2
    /\ thread[1].author = 1 /\ thread[2].author = 2
    /\ ReactorsOf(thread[1]) = {1}
    /\ Len(thread[2].reactions) = 2
    /\ \A k \in 1..2 : Range(thread[2].reactions[k].users) = {1, 2}
    /\ unique_reactors_ids = {1}
    /\ outbox # <<>>
    /\ outbox[1].kind = "summary_only"
    /\ outbox[1].voters = 1

----------------------------------------------------------------------------
(* SpecCsv: generate_csv on every bounded list of aggregates *)

\* most aggregates in a list given to generate_csv
MaxCsvRows == 3

\* the breakdowns of the aggregates given to generate_csv: none, one emoji,
\* two emojis
CsvBreakdowns ==
    {<<>>, <<[emoji |-> "E1", count |-> 1]>>,
     <<[emoji |-> "E2", count |-> 2], [emoji |-> "E1", count |-> 1]>>}

\* the dict get_post_data returns for post i with the given breakdown
CsvAggregate(i, breakdown) ==
    [post_link |-> PostLink(i),
     image_links |-> JoinComma(<<Url(i, 1)>>),
     posted_at |-> PostedAt(i),
     author |-> DisplayName(1 + (i % NumUsers)),
     reactions |-> SumSeq([k \in 1..Len(breakdown) |-> breakdown[k].count]),
     individual_reactions |-> breakdown]

CsvInit ==
    /\ \E k \in 0..MaxCsvRows :
          \E ids \in [1..k -> 1..MaxCsvRows], bs \in [1..k -> CsvBreakdowns] :
             processed_data = [i \in 1..k |-> CsvAggregate(ids[i], bs[i])]
    /\ thread = <<>>
    /\ h_pc = "csv_input"
    /\ operation = "none"
    /\ image_messages = <<>>
    /\ total_image_posts_count = 0
    /\ total_thread_reactions = 0
    /\ unique_reactors_ids = {}
    /\ csv_file = <<>>
    /\ csv_filepath = "None"
    /\ outbox = <<>>
    /\ dm = <<>>
    /\ followups = <<>>
    /\ changes = 0
    /\ PagerIdle
    /\ AggIdle
    /\ RankIdle
    /\ ConcIdle

\* csv_filepath = generate_csv(processed_data, filename=csv_filename)
GenerateCsv ==
    /\ h_pc = "csv_input"
    /\ \E io_ok \in BOOLEAN :
          LET csv == generate_csv(processed_data, io_ok) IN
          /\ csv_filepath' = csv.filepath
          /\ csv_file' = csv.rows
          /\ h_pc' = IF csv.raised THEN "raised" ELSE "csv_done"
    /\ UNCHANGED <<thread, operation, image_messages, processed_data,
                   total_image_posts_count, total_thread_reactions,
                   unique_reactors_ids, outbox, dm, followups, changes>>
    /\ UNCHANGED <<pager_vars, agg_vars, rank_vars, conc_vars>>

CsvNext == GenerateCsv

SpecCsv == CsvInit /\ [][CsvNext]_vars

----------------------------------------------------------------------------
(* Claims about the tabular export, checked under SpecCsv *)

\* C16: generate_csv writes one row per aggregate, in input order, with
\* exactly the columns post_link, image_links, posted_at, author, reactions
\* and no per-emoji breakdown; for the empty list it writes no file and
\* returns None; it never raises, a write failure giving None as well.
C16_CsvRows ==
    /\ h_pc # "raised"
    /\ h_pc = "csv_done" =>
          /\ processed_data = <<>> => (csv_filepath = "None" /\ csv_file = <<>>)
          /\ csv_filepath = "None" => csv_file = <<>>
          /\ csv_filepath # "None" =>
                /\ Len(csv_file) = Len(processed_data)
                /\ \A i \in 1..Len(csv_file) :
                      /\ DOMAIN csv_file[i] =
                            {"post_link", "image_links", "posted_at", "author",
                             "reactions"}
                      /\ \A f \in DOMAIN csv_file[i] :
                            csv_file[i][f] = processed_data[i][f]

\* C16 witness: three aggregates, not in the order of their ids and one with
\* a breakdown of two emojis, are written as three rows
C16_Witness ==
    /\ h_pc = "csv_done"
    /\ csv_filepath # "None"
    /\ Len(processed_data) = 3
    /\ processed_data[1].post_link = PostLink(2)
    /\ processed_data[2].post_link = PostLink(1)
    /\ Len(processed_data[2].individual_reactions) = 2
    /\ Len(csv_file) = 3
    /\ csv_file[1].post_link = PostLink(2)
    /\ csv_file[2].reactions = 3

\* C16, the write failure: there are aggregates and None is returned
C16_WitnessWriteFailure ==
    /\ h_pc = "csv_done"
    /\ processed_data # <<>>
    /\ csv_filepath = "None"

\* C16, the empty list
C16_WitnessEmpty ==
    /\ h_pc = "csv_done"
    /\ processed_data = <<>>
    /\ csv_filepath = "None"

----------------------------------------------------------------------------
(* SpecConcurrent: full-analysis requests in flight together.  The event   *)
(* loop runs one handler at a time and switches at the awaits; the files   *)
(* under /tmp are the state the handlers share (src/commands.py:135-161,   *)
(* src/core_logic.py:101-109).                                             *)

\* number of requests in flight together
NumRequests == 2
\* longest thread name
MaxNameLen == 2

\* the characters of thread names: a word character, one that is neither a
\* word character nor whitespace nor '-', and a blank
NameChars == {"a", "!", " "}

ThreadNames == UNION {[1..k -> NameChars] : k \in 1..MaxNameLen}

\* re.sub(r'[^\w\s-]', '', thread_name)
RemoveSpecial(name) == LET Kept(c) == c # "!" IN SelectSeq(name, Kept)

\* re.sub(r'\s+', '_', name): every run of whitespace becomes one '_'
RECURSIVE UnderscoreWhitespace(_)
UnderscoreWhitespace(name) ==
    IF name = <<>> THEN <<>>
    ELSE IF Head(name) \in Whitespace
         THEN <<"_">> \o UnderscoreWhitespace(LStrip(name))
         ELSE <<Head(name)>> \o UnderscoreWhitespace(Tail(name))

\* sanitized_name, src/commands.py:137-138
SanitizedName(name) == Strip(UnderscoreWhitespace(RemoveSpecial(name)))

\* csv_filename, src/commands.py:139
CsvFilename(name) ==
    IF SanitizedName(name) # <<>> THEN SanitizedName(name) \o <<"_results.csv">>
    ELSE <<"image_posts_reactions_results.csv">>

\* open(filepath, 'w') and the writes to it: the file of that name is replaced
WriteFile(files, name, rows) ==
    {f \in files : f.name # name} \cup {[name |-> name, rows |-> rows]}

\* the rows of the file of that name
ReadFile(files, name) == (CHOOSE f \in files : f.name = name).rows

\* request r after its summary pass: its thread has a name and one image
\* post, post r, aggregated with any breakdown
ConcInit ==
    /\ requests \in
          [1..NumRequests ->
              [pc : {"render"}, thread_name : ThreadNames,
               breakdown : CsvBreakdowns, csv_filepath : {<<>>},
               attached : {<<>>}, received : {<<>>}, followups : {<<"analyzing">>}]]
    /\ tmp_files = {}
    /\ PagerIdle
    /\ AggIdle
    /\ RankIdle
    /\ HandlerIdle

\* the aggregates of request r
ProcessedDataOf(r) == <<CsvAggregate(r, requests[r].breakdown)>>

\* lines 135-160, run without a switch: the CSV file is written under the
\* name made from the thread name, the reports are rendered and
\* discord.File(csv_filepath) opens the file for the first direct message.
\* A failing open leaves the file as it was, a failing write leaves it cut.
RenderAndAttach(r) ==
    /\ requests[r].pc = "render"
    /\ \E io \in {"ok", "open_failed", "write_failed"} :
          LET csv == generate_csv(ProcessedDataOf(r), io = "ok")
              name == CsvFilename(requests[r].thread_name) IN
          /\ tmp_files' = IF io = "ok" THEN WriteFile(tmp_files, name, csv.rows)
                          ELSE IF io = "write_failed" THEN WriteFile(tmp_files, name, <<>>)
                          ELSE tmp_files
          /\ requests' = [requests EXCEPT
                ![r].csv_filepath = IF csv.filepath # "None" THEN name ELSE <<>>,
                ![r].attached = IF csv.filepath # "None" THEN csv.rows ELSE <<>>,
                ![r].pc = "send_csv"]
    /\ UNCHANGED <<pager_vars, agg_vars, rank_vars, handler_vars>>

\* "await interaction.user.send(..., file=...)", lines 156-164: the upload
\* sends what the opened file holds when the library reads it, at once or
\* after other handlers ran; a failing send ends the request with the notice
\* of lines 177-179
SendCsv(r) ==
    /\ requests[r].pc = "send_csv"
    /\ \E sent \in BOOLEAN :
          IF ~sent
          THEN requests' = [requests EXCEPT ![r].pc = "done",
                               ![r].followups = Append(@, "dm_failed")]
          ELSE IF requests[r].csv_filepath = <<>>
          THEN requests' = [requests EXCEPT ![r].pc = "send_report",
                               ![r].received = Append(@, [kind |-> "csv_failed"])]
          ELSE \E rows \in {requests[r].attached,
                            ReadFile(tmp_files, requests[r].csv_filepath)} :
                  requests' = [requests EXCEPT ![r].pc = "send_report",
                                  ![r].received = Append(@, [kind |-> "csv", rows |-> rows])]
    /\ UNCHANGED tmp_files
    /\ UNCHANGED <<pager_vars, agg_vars, rank_vars, handler_vars>>

\* lines 167-179: the report is sent and the request confirmed, or a send
\* fails and the notice is given
SendReport(r) ==
    /\ requests[r].pc = "send_report"
    /\ \E sent \in BOOLEAN :
          IF sent
          THEN requests' = [requests EXCEPT ![r].pc = "done",
                               ![r].received = Append(@, [kind |-> "report"]),
                               ![r].followups = Append(@, "complete")]
          ELSE requests' = [requests EXCEPT ![r].pc = "done",
                               ![r].followups = Append(@, "dm_failed")]
    /\ UNCHANGED tmp_files
    /\ UNCHANGED <<pager_vars, agg_vars, rank_vars, handler_vars>>

ConcNext ==
    \E r \in 1..NumRequests :
        \/ RenderAndAttach(r)
        \/ SendCsv(r)
        \/ SendReport(r)

SpecConcurrent == ConcInit /\ [][ConcNext]_vars

----------------------------------------------------------------------------
(* Claims about concurrent requests, checked under SpecConcurrent *)

\* C18: requests are isolated: with two full-analysis requests in flight
\* together, also when the names of their threads are sanitized to the same
\* text, the tabular export a requester receives holds exactly the rows of
\* the aggregates of their own request.
C18_RequestsIsolated ==
    \A r \in 1..Len(requests) :
        \A i \in 1..Len(requests[r].received) :
            requests[r].received[i].kind = "csv" =>
               requests[r].received[i].rows = CsvRows(ProcessedDataOf(r))

\* the export of every request whose file name no other request shares
IsolatedWithDistinctNames ==
    \A r \in 1..Len(requests) :
        (\A q \in 1..Len(requests) :
            q # r => CsvFilename(requests[q].thread_name)
                        # CsvFilename(requests[r].thread_name))
        => \A i \in 1..Len(requests[r].received) :
              requests[r].received[i].kind = "csv" =>
                 requests[r].received[i].rows = CsvRows(ProcessedDataOf(r))

----------------------------------------------------------------------------
(* SpecReportPager: split_message on reports of 4500 characters with the   *)
(* limit 2000, scaled by 250: every text of 18 characters made of visible  *)
(* characters and newlines, with the limit 8                               *)

\* the report length, 4500 scaled
ReportLen == 18
\* the limit, 2000 scaled
ReportLimit == 8
\* the longest line of a report with short lines, 499 scaled
ReportLineLen == 1

ReportPagerInit ==
    /\ message \in [1..ReportLen -> {"a", NL}]
    /\ max_length = ReportLimit
    /\ parts = <<>>
    /\ pager_pc = "input"
    /\ AggIdle
    /\ RankIdle
    /\ HandlerIdle
    /\ ConcIdle

SpecReportPager == ReportPagerInit /\ [][PagerNext]_vars

----------------------------------------------------------------------------
(* Claims about paging a report, checked under SpecReportPager *)

\* the length of the longest line of a text
LongestLine(msg) ==
    MaxOfSet({Len(SplitLines(msg)[i]) : i \in 1..Len(SplitLines(msg))})

----------------------------------------------------------------------------
(* SpecFrame: the export and the three renderings of handle_full_analysis  *)
(* (src/commands.py:140-151) with the aggregates as Python objects: a list *)
(* holds references to dicts, and a callee that changes a dict it was      *)
(* passed changes it for the caller.                                       *)

\* most aggregates in processed_data under SpecFrame
MaxFrameRows == 3

\* the references 1..n, in order: a list whose i-th element is object i
RefsTo(n) == [i \in 1..n |-> i]

\* the dicts a list of references holds, in the order of the list
ListObjects(heap, refs) == [i \in 1..Len(refs) |-> heap[refs[i]]]

\* a plausible bug: "temp_item = item", a second name for the same dict
DictAlias(heap, ref) == [heap |-> heap, ref |-> ref]

\* item.copy(): a new dict with the same keys and values
DictCopy(heap, ref) == [heap |-> Append(heap, heap[ref]), ref |-> Len(heap) + 1]

\* temp_item.pop(key, None): the dict loses the key, if it has it
DictPop(heap, ref, key) ==
    [heap EXCEPT ![ref] = [f \in DOMAIN @ \ {key} |-> @[f]]]

\* "for item in data:" of generate_csv (lines 96-99), from item i on
RECURSIVE CsvCopyLoop(_, _)
CsvCopyLoop(st, i) ==
    IF i > Len(st.data) THEN st
    ELSE LET copied == DictCopy(st.heap, st.data[i])
             popped == DictPop(copied.heap, copied.ref, "individual_reactions") IN
         CsvCopyLoop([heap |-> popped, data |-> st.data,
                      csv_data |-> Append(st.csv_data, copied.ref)], i + 1)

\* the objects of generate_csv when it returns, called on the list d: the
\* dicts, its parameter data and its local csv_data
CsvFrame(d) ==
    IF d = <<>> THEN [heap |-> d, data |-> RefsTo(0), csv_data |-> <<>>]
    ELSE CsvCopyLoop([heap |-> d, data |-> RefsTo(Len(d)), csv_data |-> <<>>], 1)

\* the objects of a renderer when it returns: sorted() builds a new list of
\* the same dicts (lines 130, 264), and the loops only read them
RenderFrame(d) ==
    [heap |-> d, data |-> RefsTo(Len(d)),
     sorted_data |-> SortedOrder([i \in 1..Len(d) |-> d[i].reactions])]

\* the caller's list after the callee returned with these objects
CallerList(frame) == ListObjects(frame.heap, frame.data)

\* the handler after the summary pass (line 132): the aggregates of a thread
\* with image posts, and its totals
FrameInit ==
    /\ \E k \in 1..MaxFrameRows :
          \E ids \in [1..k -> 1..MaxFrameRows], bs \in [1..k -> CsvBreakdowns] :
             processed_data = [i \in 1..k |-> CsvAggregate(ids[i], bs[i])]
    /\ thread = <<>>
    /\ h_pc = "generate_csv"
    /\ operation = "full"
    /\ image_messages = <<>>
    /\ total_image_posts_count = Len(processed_data)
    /\ total_thread_reactions = SumReactions(processed_data)
    /\ unique_reactors_ids =
          1..MaxOfSet({processed_data[i].reactions : i \in 1..Len(processed_data)})
    /\ csv_file = <<>>
    /\ csv_filepath = "None"
    /\ outbox = <<>>
    /\ dm = <<>>
    /\ followups = <<"analyzing">>
    /\ changes = 0
    /\ data = <<>>
    /\ arg_num_top_posts = 0
    /\ arg_include_image_links = FALSE
    /\ renderer = "input"
    /\ markdown = <<>>
    /\ PagerIdle
    /\ AggIdle
    /\ ConcIdle

\* line 140: csv_filepath = generate_csv(processed_data, ...).  data is the
\* list as it was passed, processed_data the list as the call left it.
FrameGenerateCsv ==
    /\ h_pc = "generate_csv"
    /\ \E io_ok \in BOOLEAN :
          LET csv == generate_csv(processed_data, io_ok) IN
          /\ csv_filepath' = csv.filepath
          /\ csv_file' = csv.rows
    /\ data' = processed_data
    /\ processed_data' = CallerList(CsvFrame(processed_data))
    /\ renderer' = "generate_csv"
    /\ h_pc' = "markdown_full"
    /\ UNCHANGED <<thread, operation, image_messages, total_image_posts_count,
                   total_thread_reactions, unique_reactors_ids, outbox, dm,
                   followups, changes>>
    /\ UNCHANGED <<arg_num_top_posts, arg_include_image_links, markdown>>
    /\ UNCHANGED <<pager_vars, agg_vars, conc_vars>>

\* lines 143-148: generate_markdown_output(processed_data, 5, ..., True) and
\* then (..., False)
FrameMarkdown(pc, include_image_links, next_pc) ==
    /\ h_pc = pc
    /\ data' = processed_data
    /\ arg_num_top_posts' = 5
    /\ arg_include_image_links' = include_image_links
    /\ markdown' = generate_markdown_output(
                      processed_data, 5, total_image_posts_count,
                      total_thread_reactions, Cardinality(unique_reactors_ids),
                      include_image_links)
    /\ processed_data' = CallerList(RenderFrame(processed_data))
    /\ renderer' = "core"
    /\ h_pc' = next_pc
    /\ UNCHANGED <<thread, operation, image_messages, total_image_posts_count,
                   total_thread_reactions, unique_reactors_ids, csv_file,
                   csv_filepath, outbox, dm, followups, changes>>
    /\ UNCHANGED <<pager_vars, agg_vars, conc_vars>>

FrameMarkdownFull == FrameMarkdown("markdown_full", TRUE, "markdown_short")

FrameMarkdownShort == FrameMarkdown("markdown_short", FALSE, "enhanced_report")

\* line 151: enhanced_report = generate_enhanced_ranking(processed_data, ...)
FrameEnhanced ==
    /\ h_pc = "enhanced_report"
    /\ data' = processed_data
    /\ arg_num_top_posts' = EnhancedTopN
    /\ arg_include_image_links' = TRUE
    /\ markdown' = generate_enhanced_ranking(
                      processed_data, total_image_posts_count,
                      total_thread_reactions, Cardinality(unique_reactors_ids))
    /\ processed_data' = CallerList(RenderFrame(processed_data))
    /\ renderer' = "enhanced"
    /\ h_pc' = "reports_done"
    /\ UNCHANGED <<thread, operation, image_messages, total_image_posts_count,
                   total_thread_reactions, unique_reactors_ids, csv_file,
                   csv_filepath, outbox, dm, followups, changes>>
    /\ UNCHANGED <<pager_vars, agg_vars, conc_vars>>

FrameNext ==
    \/ FrameGenerateCsv
    \/ FrameMarkdownFull
    \/ FrameMarkdownShort
    \/ FrameEnhanced

SpecFrame == FrameInit /\ [][FrameNext]_vars

----------------------------------------------------------------------------
(* Claims about the frame of export and rendering, checked under SpecFrame *)

AggregateFields ==
    {"post_link", "image_links", "posted_at", "author", "reactions",
     "individual_reactions"}

\* C21: after generate_csv, generate_markdown_output and
\* generate_enhanced_ranking have run on the aggregate list, the list has the
\* same elements in the same order and every aggregate has all its fields
\* with the same values as when it was passed; individual_reactions is still
\* there after the export that leaves it out of the rows.
C21_InputUnchanged ==
    renderer \in {"generate_csv", "core", "enhanced"} =>
       /\ processed_data = data
       /\ \A i \in 1..Len(processed_data) :
             DOMAIN processed_data[i] = AggregateFields

\* C21 witness: all four calls have run on three aggregates, the file was
\* written without the breakdown, and the second aggregate still has its
\* breakdown of two emojis
C21_Witness ==
    /\ h_pc = "reports_done"
    /\ Len(processed_data) = 3
    /\ csv_filepath # "None"
    /\ Len(csv_file) = 3
    /\ "individual_reactions" \notin DOMAIN csv_file[2]
    /\ Len(processed_data[2].individual_reactions) = 2
    /\ processed_data[1].reactions < processed_data[2].reactions

\* C21, right after the export
C21_WitnessExport ==
    /\ h_pc = "markdown_full"
    /\ renderer = "generate_csv"
    /\ csv_filepath # "None"
    /\ \E i \in 1..Len(processed_data) : processed_data[i].individual_reactions # <<>>

----------------------------------------------------------------------------
(* SpecDelivery: the export, the rendering and the delivery block of       *)
(* handle_full_analysis (src/commands.py:135-179) on every bounded list of *)
(* aggregates, every send succeeding or raising                            *)

\* most aggregates in processed_data under SpecDelivery
MaxDeliveryRows == 3

\* the handler after the summary pass (line 132) of a full analysis
DeliveryInit ==
    /\ \E k \in 1..MaxDeliveryRows :
          \E ids \in [1..k -> 1..MaxDeliveryRows], bs \in [1..k -> CsvBreakdowns] :
             processed_data = [i \in 1..k |-> CsvAggregate(ids[i], bs[i])]
    /\ thread = <<>>
    /\ h_pc = "render"
    /\ operation = "full"
    /\ image_messages = <<>>
    /\ total_image_posts_count = Len(processed_data)
    /\ total_thread_reactions = SumReactions(processed_data)
    /\ unique_reactors_ids =
          1..MaxOfSet({processed_data[i].reactions : i \in 1..Len(processed_data)})
    /\ csv_file = <<>>
    /\ csv_filepath = "None"
    /\ outbox = <<>>
    /\ dm = <<>>
    /\ followups = <<"analyzing">>
    /\ changes = 0
    /\ PagerIdle
    /\ AggIdle
    /\ RankIdle
    /\ ConcIdle

DeliveryNext ==
    \/ RenderFull
    \/ Send
    \/ Confirm
    \/ Notify

SpecDelivery == DeliveryInit /\ [][DeliveryNext]_vars

----------------------------------------------------------------------------
(* Claims about the delivery order, checked under SpecDelivery *)

\* the chunks of the enhanced report the pager gives for this request
PagerChunks ==
    ReportParts(ReportText(generate_enhanced_ranking(
        processed_data, total_image_posts_count, total_thread_reactions,
        Cardinality(unique_reactors_ids))))

\* the report chunks the requester has received, in the order received
ReceivedChunks ==
    LET reports == SelectSeq(dm, LAMBDA m : m.kind = "report") IN
    [i \in 1..Len(reports) |-> reports[i].text]

\* how many of the responses of the interaction are r
CountOf(r) == Cardinality({i \in 1..Len(followups) : followups[i] = r})

\* the delivery has begun: the messages to send are made
Delivering == h_pc \in {"deliver", "except", "done", "raised"}

\* the order of the messages and responses, which both statements of C24
\* share: the CSV (or CSV-failed) message comes before any report chunk, the
\* chunks come in pager order, the confirmation comes only after every
\* chunk, and after a failed send nothing more is sent and the confirmation
\* is never given
DeliveryOrdered ==
    Delivering =>
       /\ dm # <<>> => dm[1].kind \in {"csv", "csv_failed"}
       /\ \A i \in 2..Len(dm) : dm[i].kind = "report"
       /\ Len(ReceivedChunks) <= Len(PagerChunks)
       /\ ReceivedChunks = SubSeq(PagerChunks, 1, Len(ReceivedChunks))
       /\ CountOf("complete") = 1 =>
             (Len(dm) = 1 + Len(PagerChunks) /\ h_pc = "done")
       /\ h_pc \in {"except", "raised"} => CountOf("complete") = 0
       /\ CountOf("dm_failed") = 1 => CountOf("complete") = 0
       /\ CountOf("complete") <= 1
       /\ CountOf("dm_failed") <= 1

\* C24 as stated: the delivery is ordered as above, a failed send is always
\* answered with the failure notice, and each request ends with exactly one
\* of the two terminal responses.
C24_DeliveryOrder ==
    /\ DeliveryOrdered
    /\ h_pc # "raised"
    /\ h_pc = "done" => CountOf("complete") + CountOf("dm_failed") = 1

\* C24 amended: the delivery is ordered as above and a request that returns
\* has given exactly one of the two terminal responses, the failure notice
\* also when it is the confirmation that could not be sent; when the failure
\* notice itself cannot be sent the request ends with the exception and has
\* given neither.
C24_DeliveryOrderUnlessNoticeFails ==
    /\ DeliveryOrdered
    /\ h_pc = "done" => CountOf("complete") + CountOf("dm_failed") = 1
    /\ h_pc = "raised" => followups = <<"analyzing">>

\* C24 witness: a send of the second report chunk failed after the CSV
\* message and the first chunk were delivered; the notice was given, no
\* later chunk was sent and no confirmation given
C24_Witness ==
    /\ h_pc = "done"
    /\ Len(PagerChunks) >= 3
    /\ Len(dm) = 2
    /\ dm[1].kind = "csv"
    /\ dm[2].text = PagerChunks[1]
    /\ PagerChunks[1] # PagerChunks[2]
    /\ followups = <<"analyzing", "dm_failed">>

\* C24, the request that succeeds: everything delivered, then the
\* confirmation
C24_WitnessComplete ==
    /\ h_pc = "done"
    /\ Len(PagerChunks) >= 3
    /\ Len(dm) = 1 + Len(PagerChunks)
    /\ followups = <<"analyzing", "complete">>

\* C24, the confirmation that could not be sent: everything was delivered
\* and the requester gets the failure notice
C24_WitnessConfirmFailed ==
    /\ h_pc = "done"
    /\ Len(dm) = 1 + Len(PagerChunks)
    /\ followups = <<"analyzing", "dm_failed">>

=============================================================================
